---------------------------- MODULE Spec2Model ----------------------------
(***************************************************************************)
(* The scraping engine of ctcityscraper: ParquetWriter                     *)
(* (src/src/engine/database.py), compute_row_hash (src/src/engine/hash.py) *)
(* and the orchestrator run_load / run_refresh (src/src/engine/engine.py), *)
(* driven by the CLI commands of src/scrape.py.                            *)
(*                                                                         *)
(* The pool workers scrape concurrently; every writer call is made by the  *)
(* thread that runs the completion loop.  A worker's completion and the    *)
(* handling of one completed future are the atomic steps of the model.     *)
(***************************************************************************)
EXTENDS Integers, Sequences, FiniteSets, TLC

\* ------------------------------------------------------------------ bounds

\* Number of entry IDs the iterator yields.
MaxEntries == 3

\* ------------------------------------------------------------- values, str()

\* Python values of a row: ints, strings (sequences of characters) and None.
IntV(n) == [t |-> "int", v |-> n]
StrV(s) == [t |-> "str", v |-> s]
NoneV == [t |-> "none", v |-> 0]

Digit(d) == <<"0", "1", "2", "3", "4", "5", "6", "7", "8", "9">>[d + 1]

\* str(n) of a non-negative int: its decimal digits.
RECURSIVE IntStr(_)
IntStr(n) == IF n < 10 THEN <<Digit(n)>> ELSE IntStr(n \div 10) \o <<Digit(n % 10)>>

\* str(v): a string is itself, an int is its decimal rendering.
Str(v) == IF v.t = "str" THEN v.v ELSE IF v.t = "int" THEN IntStr(v.v) ELSE <<"N", "o", "n", "e">>

\* ------------------------------------------------------------ row hashing

\* hash.py _DEFAULT_EXCLUDE: the columns that never enter the content hash.
DEFAULT_EXCLUDE ==
    {"id", "version", "row_hash", "effective_from", "effective_to", "is_current",
     "loaded_at", "updated_at", "created_at", "scraped_at", "city_id", "vgsi_url",
     "photo_paths", "photo_local_path"}

\* compute_row_hash: MD5 of the sorted-key JSON of {k: str(v)} over the columns
\* that are not excluded and not None.  MD5 is taken as injective on that JSON,
\* so the hash is the set of (key, str(value)) pairs.
compute_row_hash(row) ==
    {<<k, Str(row[k])>> : k \in {c \in DOMAIN row : c \notin DEFAULT_EXCLUDE /\ row[c] # NoneV}}

\* ------------------------------------------------------------- the source

\* The tables of the scope, in the order flatten emits them; extra_features
\* stands for the tables whose rows are the parsed rows of a page table
\* (ownership, appraisals, assessments, extra_features, outbuildings).
Tables == <<"properties", "buildings", "extra_features">>

TableSet == {Tables[i] : i \in 1..Len(Tables)}

\* What scrape_fn returns for entry `pid` when the registry shows assessment
\* `val` (the fixture of tests/test_engine.py: uuid "t-<pid>", pid, a value);
\* entries with an even pid carry one building.
ScrapeResult(pid, val) ==
    [property |-> [uuid |-> StrV(<<"t", "-">> \o IntStr(pid)),
                   pid |-> IntV(pid),
                   assessment_value |-> val,
                   vgsi_url |-> StrV(<<"u">> \o IntStr(pid))],
     buildings |-> IF pid % 2 = 0
                   THEN <<[property_uuid |-> StrV(<<"t", "-">> \o IntStr(pid)),
                           pid |-> IntV(pid),
                           bid |-> IntV(1)]>>
                   ELSE <<>>,
     extra_features |-> <<>>]

\* flatten_vgsi: one properties row per result whose uuid was not seen earlier
\* in this call, and that result's building rows; a result with a uuid already
\* seen is skipped whole.
RECURSIVE flatten_rec(_, _, _)
flatten_rec(results, seen, acc) ==
    IF results = <<>> THEN acc
    ELSE LET r == Head(results)
         IN IF r.property.uuid \in seen
            THEN flatten_rec(Tail(results), seen, acc)
            ELSE flatten_rec(Tail(results), seen \cup {r.property.uuid},
                             [properties |-> Append(acc.properties, r.property),
                              buildings |-> acc.buildings \o r.buildings,
                              extra_features |-> acc.extra_features \o r.extra_features])

flatten_fn(results) ==
    flatten_rec(results, {}, [properties |-> <<>>, buildings |-> <<>>, extra_features |-> <<>>])

\* ------------------------------------------------------------ sequences

RECURSIVE SelectRows(_, _)
SelectRows(rows, known) ==
    IF rows = <<>> THEN <<>>
    ELSE IF Head(rows).row_hash \in known
         THEN SelectRows(Tail(rows), known)
         ELSE <<Head(rows)>> \o SelectRows(Tail(rows), known)

Range(s) == {s[i] : i \in 1..Len(s)}

\* Ascending list of a finite set of integers (SQL ORDER BY, sorted()).
RECURSIVE SortedSeq(_)
SortedSeq(S) ==
    IF S = {} THEN <<>>
    ELSE LET m == CHOOSE x \in S : \A y \in S : x <= y IN <<m>> \o SortedSeq(S \ {m})

\* ------------------------------------------------------- ParquetWriter

\* A file of the scope directory: <table>/<ts>_<part:04d>.parquet for a batch
\* file, <table>/<ts>.parquet (part = Merged) for a compacted one.
Merged == -1

File(table, ts, part, rows) == [table |-> table, ts |-> ts, part |-> part, rows |-> rows]

SamePath(f, g) == f.table = g.table /\ f.ts = g.ts /\ f.part = g.part

\* COPY ... TO path: the file at that path is created or replaced.
WriteFile(fs, f) == {g \in fs : ~SamePath(g, f)} \cup {f}

\* ParquetWriter.__init__: a writer whose session timestamp is `ts`.
NewWriter(ts) ==
    [session_ts |-> ts, batch_num |-> 0, hashes_loaded |-> FALSE,
     existing_hashes |-> <<>>, rows_written |-> 0, rows_skipped |-> 0]

\* row["scraped_at"] = now; row["row_hash"] = compute_row_hash(row)
Augment(row, now) ==
    LET r1 == [scraped_at |-> now] @@ row
    IN [row_hash |-> compute_row_hash(r1)] @@ r1

\* The rows of a table that survive the hash cache.
NewRows(rows, known) == SelectRows(rows, known)

\* The body of write_batch's loop for table number i and the tables after it.
\* st = [w, fs, raised]; `fail` is the table whose _write_parquet raises
\* ("none" when no write fails).  The exception leaves the loop: the tables
\* after the failing one are not processed.
RECURSIVE write_tables(_, _, _, _, _, _)
write_tables(i, st, tabs, batch_num, now, fail) ==
    IF i > Len(Tables) \/ st.raised THEN st
    ELSE LET t == Tables[i]
             rows == [j \in 1..Len(tabs[t]) |-> Augment(tabs[t][j], now)]
             cached == st.w.hashes_loaded
             known == IF t \in DOMAIN st.w.existing_hashes
                      THEN st.w.existing_hashes[t] ELSE {}
             new_rows == IF cached THEN NewRows(rows, known) ELSE rows
             w1 == IF cached
                   THEN [st.w EXCEPT
                           !.rows_skipped = @ + (Len(rows) - Len(new_rows)),
                           !.existing_hashes =
                               (t :> (known \cup {r.row_hash : r \in Range(new_rows)})) @@ @]
                   ELSE st.w
             w2 == [w1 EXCEPT !.rows_written = @ + Len(new_rows)]
             f == File(t, st.w.session_ts, batch_num, new_rows)
         IN IF rows = <<>>
            THEN write_tables(i + 1, st, tabs, batch_num, now, fail)
            ELSE IF new_rows = <<>>
            THEN write_tables(i + 1, [st EXCEPT !.w = w1], tabs, batch_num, now, fail)
            ELSE IF fail = t
            THEN [w |-> w2, fs |-> st.fs, raised |-> TRUE]
            ELSE write_tables(i + 1, [w |-> w2, fs |-> WriteFile(st.fs, f), raised |-> FALSE],
                              tabs, batch_num, now, fail)

\* ParquetWriter.write_batch(results) on writer w and scope directory fs.
\* datetime.now() is the pair (session, batch number): one instant per call.
write_batch(w, fs, results, fail) ==
    IF results = <<>> THEN [w |-> w, fs |-> fs, raised |-> FALSE]
    ELSE write_tables(1, [w |-> [w EXCEPT !.batch_num = @ + 1], fs |-> fs, raised |-> FALSE],
                      flatten_fn(results), w.batch_num, <<w.session_ts, w.batch_num>>, fail)

\* session_files with the glob "*_*.parquet": the batch files of any session.
session_files_any(fs, t, ts) == {f \in fs : f.table = t /\ f.part # Merged}

\* table_dir.glob(f"{session_ts}_*.parquet"): the session's batch files.
session_files(fs, t, ts) == {f \in fs : f.table = t /\ f.ts = ts /\ f.part # Merged}

\* A read that returns the rows of the first batch file only.
read_parts_first(sess, parts) ==
    IF parts = <<>> THEN <<>> ELSE (CHOOSE f \in sess : f.part = Head(parts)).rows

\* read_parquet over the sorted batch files: their rows, in file-name order.
RECURSIVE read_parts(_, _)
read_parts(sess, parts) ==
    IF parts = <<>> THEN <<>>
    ELSE (CHOOSE f \in sess : f.part = Head(parts)).rows \o read_parts(sess, Tail(parts))

\* compact_table without the unlink of the batch files.
compact_table_keep(fs, t, ts) ==
    LET sess == session_files(fs, t, ts)
    IN IF Cardinality(sess) <= 1 THEN fs
       ELSE WriteFile(fs, File(t, ts, Merged,
                               read_parts(sess, SortedSeq({f.part : f \in sess}))))

\* compact(), one table directory.
compact_table(fs, t, ts) ==
    LET sess == session_files(fs, t, ts)
    IN IF Cardinality(sess) <= 1 THEN fs
       ELSE WriteFile(fs, File(t, ts, Merged,
                               read_parts(sess, SortedSeq({f.part : f \in sess})))) \ sess

\* ParquetWriter.compact(): every table directory in turn.
RECURSIVE compact_from(_, _, _)
compact_from(i, fs, ts) ==
    IF i > Len(Tables) THEN fs ELSE compact_from(i + 1, compact_table(fs, Tables[i], ts), ts)

compact(w, fs) == compact_from(1, fs, w.session_ts)

\* load_existing_hashes: SELECT DISTINCT row_hash over all files of a table.
load_existing_hashes(fs, t) ==
    UNION {{r.row_hash : r \in Range(f.rows)} : f \in {g \in fs : g.table = t}}

\* preload_hashes whose reads fail: every table's hash set comes back empty.
preload_hashes_empty(w, fs) ==
    [w EXCEPT !.hashes_loaded = TRUE,
              !.existing_hashes = [t \in {f.table : f \in fs} |-> {}]]

\* preload_hashes(): one hash set per existing table directory.
preload_hashes(w, fs) ==
    [w EXCEPT !.hashes_loaded = TRUE,
              !.existing_hashes = [t \in {f.table : f \in fs} |-> load_existing_hashes(fs, t)]]

\* get_write_stats()
get_write_stats(w) == [rows_written |-> w.rows_written, rows_skipped |-> w.rows_skipped]

\* The checkpoint file <data_dir>/_checkpoints/<scope_key>.json.
NoCheckpoint == [present |-> FALSE, last_entry_id |-> <<>>, total_scraped |-> 0]

\* save_checkpoint: last_entry_id is stored as str(last_entry_id).
save_checkpoint(last_entry_id, total_scraped) ==
    [present |-> TRUE, last_entry_id |-> Str(last_entry_id), total_scraped |-> total_scraped]

\* get_last_checkpoint: (last_entry_id, total_scraped), present = FALSE for None.
get_last_checkpoint(cp) == IF cp.present THEN cp ELSE NoCheckpoint

\* get_known_entry_ids (VGSI): SELECT DISTINCT pid FROM properties ORDER BY pid.
get_known_entry_ids(fs) ==
    LET pids == UNION {{r.pid.v : r \in Range(f.rows)} : f \in {g \in fs : g.table = "properties"}}
        sorted == SortedSeq(pids)
    IN [i \in 1..Len(sorted) |-> IntV(sorted[i])]

\* ------------------------------------------------------------------ state

VARIABLES
    command,      \* "load" or "refresh": the CLI command being run
    args,         \* the arguments of run_load / run_refresh
    registry,     \* pid -> the assessment value the remote site shows
    env,          \* what the site and the disk can do in this behaviour
    files,        \* the scope directory: a set of File records
    checkpoint,   \* the checkpoint file of the scope
    writer,       \* the ParquetWriter of this run
    pc,           \* where the orchestrator's main thread is
    entry_ids,    \* the entry IDs submitted (after resume filtering)
    total_previously_scraped,
    futures,      \* position in entry_ids -> state of its future
    batch,        \* the in-memory batch of results
    completed,    \* completed["count"]
    errors,       \* [total, consecutive]
    tripped,      \* TooManyErrors was raised in handle_result
    calls,        \* the writer calls made after the completion loop
    ret,          \* the value run_load / run_refresh returned (NotReturned before)
    exit_code,    \* the exit code of the command (NotReturned before)
    tally,        \* bookkeeping of the run: what the workers returned
    rate_limiter, \* the RateLimiter object: its semaphore and its counters
    threads,      \* thread -> where it is in `with rate_limiter.acquire():`
    clock,        \* time.time(), in ticks
    probe         \* the value returned by the function call under study

vars == <<command, args, registry, env, files, checkpoint, writer, pc, entry_ids,
          total_previously_scraped, futures, batch, completed, errors, tripped,
          calls, ret, exit_code, tally, rate_limiter, threads, clock, probe>>

\* The orchestrator's state, and the state beside it.
run_state == <<command, args, registry, env, files, checkpoint, writer, pc, entry_ids,
               total_previously_scraped, futures, batch, completed, errors, tripped,
               calls, ret, exit_code, tally>>

aside == <<rate_limiter, threads, clock, probe>>

\* Nothing beside the orchestrator is looked at.
NoAside ==
    /\ rate_limiter = <<>>
    /\ threads = <<>>
    /\ clock = 0
    /\ probe = <<>>

NotReturned == -1

\* The assessment value every entry shows at the first load.
BaseValue == IntV(1)

\* States of a future: queued in the pool, running in a worker, finished with
\* (result, is_error), taken by the completion loop, or cancelled.
\*   "ok"      -> (result, False)   scrape_fn returned its result dict
\*   "invalid" -> (None, False)     scrape_fn raised invalid_entry_exception
\*   "error"   -> (None, True)      any other exception
Finished == {"ok", "invalid", "error"}

Positions == DOMAIN futures

Running == {i \in Positions : futures[i] = "running"}

Pending == {i \in Positions : futures[i] = "pending"}

\* invalid: the completions handled whose scrape_fn raised
\* invalid_entry_exception; flattened: the rows flatten_fn handed to the
\* write_batch calls of the run; photo_failed: the positions whose scrape_fn
\* returned a result and whose photo download then raised.
NoTally == [invalid |-> 0, flattened |-> 0, photo_failed |-> {}]

\* The number of rows in the tables flatten_fn returns for a batch.
RowCount(results) ==
    Len(flatten_fn(results).properties) + Len(flatten_fn(results).buildings)
    + Len(flatten_fn(results).extra_features)

\* The positions whose scrape_fn was invoked.
Scraped == {i \in Positions : futures[i] \notin {"pending", "cancelled"}}

\* The state shared by run_load and run_refresh before the pool is opened
\* (engine.py lines 186-191 and 375-379).
FreshRun ==
    /\ NoAside
    /\ batch = <<>>
    /\ completed = 0
    /\ errors = [total |-> 0, consecutive |-> 0]
    /\ tripped = FALSE
    /\ calls = <<>>
    /\ ret = NotReturned
    /\ exit_code = NotReturned

\* ---------------------------------------------------------------- run_load

\* The iterators tried: range(1, M+1), range(2, M+2) (make_load_iter), and a
\* list that yields one ID twice.
Iterators ==
    {[i \in 1..MaxEntries |-> IntV(i)],
     [i \in 1..MaxEntries |-> IntV(i + 1)],
     [i \in 1..MaxEntries |-> IntV(IF i % 2 = 1 THEN 2 ELSE 1)]}

\* first_match without the break: the index of the last matching entry.
RECURSIVE last_match(_, _, _)
last_match(ids, last_entry_id, i) ==
    IF i > Len(ids) THEN 0
    ELSE LET later == last_match(ids, last_entry_id, i + 1)
         IN IF later > 0 THEN later
            ELSE IF Str(ids[i]) = last_entry_id THEN i ELSE 0

\* The resume block of run_load: the index of the first entry whose str()
\* equals the checkpoint's last_entry_id, 0 when there is none (idx = None).
RECURSIVE first_match(_, _, _)
first_match(ids, last_entry_id, i) ==
    IF i > Len(ids) THEN 0
    ELSE IF Str(ids[i]) = last_entry_id THEN i
    ELSE first_match(ids, last_entry_id, i + 1)

\* entry_ids[idx + 1:]
Drop(ids, n) == SubSeq(ids, n + 1, Len(ids))

\* run_load up to the opening of the pool (lines 134-191, 260-263): materialize
\* the IDs, resume from the checkpoint, return early when nothing is left,
\* submit one future per remaining ID.
run_load_start ==
    /\ pc = "start" /\ command = "load"
    /\ LET ids == args.ids
           cp == get_last_checkpoint(checkpoint)
           resuming == args.resume_from_checkpoint /\ cp.present
           idx == IF resuming THEN first_match(ids, cp.last_entry_id, 1) ELSE 0
           rest == IF resuming /\ idx > 0 THEN Drop(ids, idx) ELSE ids
       IN /\ entry_ids' = rest
          /\ total_previously_scraped' =
                 IF args.resume_from_checkpoint /\ (~cp.present \/ idx > 0)
                 THEN cp.total_scraped ELSE 0
          /\ futures' = [i \in 1..Len(rest) |-> "pending"]
          /\ IF rest = <<>>
             THEN /\ calls' = <<[op |-> "close"]>>
                  /\ ret' = 0
                  /\ exit_code' = 0
                  /\ pc' = "done"
             ELSE /\ pc' = "loop"
                  /\ UNCHANGED <<calls, ret, exit_code>>
    /\ UNCHANGED <<aside, command, args, registry, env, files, checkpoint, writer, batch,
                   completed, errors, tripped, tally>>

\* A pool that starts a queued future whatever the number of busy threads.
worker_start_unbounded(i) ==
    /\ pc \in {"loop", "cancel"}
    /\ i \in Pending
    /\ \A j \in Pending : i <= j
    /\ futures' = [futures EXCEPT ![i] = "running"]
    /\ UNCHANGED <<aside, command, args, registry, env, files, checkpoint, writer, pc, entry_ids,
                   total_previously_scraped, batch, completed, errors, tripped,
                   calls, ret, exit_code, tally>>

\* The pool hands the oldest queued future to a free worker thread; it does
\* so as long as that future is not cancelled, also between the raise of
\* TooManyErrors and the cancel loop.
worker_start(i) ==
    /\ pc \in {"loop", "cancel"}
    /\ i \in Pending
    /\ \A j \in Pending : i <= j
    /\ Cardinality(Running) < args.max_workers
    /\ futures' = [futures EXCEPT ![i] = "running"]
    /\ UNCHANGED <<aside, command, args, registry, env, files, checkpoint, writer, pc, entry_ids,
                   total_previously_scraped, batch, completed, errors, tripped,
                   calls, ret, exit_code, tally>>

\* worker(entry_id) returns: what scrape_fn did decides (result, is_error).
\* A worker that was running when the loop broke still runs to its end.
worker(i, outcome) ==
    /\ pc \in {"loop", "cancel", "join"}
    /\ i \in Running
    /\ futures' = [futures EXCEPT ![i] = outcome]
    /\ UNCHANGED <<aside, command, args, registry, env, files, checkpoint, writer, pc, entry_ids,
                   total_previously_scraped, batch, completed, errors, tripped,
                   calls, ret, exit_code, tally>>

Call(op) == [op |-> op, last_entry_id |-> <<>>, total_scraped |-> 0]

CheckpointCall(cp) ==
    [op |-> "save_checkpoint", last_entry_id |-> cp.last_entry_id,
     total_scraped |-> cp.total_scraped]

\* The environment of a behaviour: the outcomes a scrape can have, and the
\* writes the disk can refuse.  `fail` names the table whose _write_parquet
\* raises in a write_batch call ("none": no write fails; the scraped results
\* carry rows for properties and buildings only), cp_fails whether the
\* checkpoint's write_text raises.
Hostile == [outcomes |-> Finished, write_failures |-> {"properties", "buildings", "none"},
            checkpoint_failures |-> BOOLEAN]

\* Every entry exists and is scraped without error, and the disk is healthy.
Benign == [outcomes |-> {"ok"}, write_failures |-> {"none"}, checkpoint_failures |-> {FALSE}]

\* count_error without the errors["total"] increment.
count_error_no_total(errs, is_error) ==
    IF is_error
    THEN [errs EXCEPT !.consecutive = @ + 1]
    ELSE [errs EXCEPT !.consecutive = 0]

\* count_error that counts every result without a dict as an error.
count_error_any(errs, is_error) ==
    [errs EXCEPT !.total = @ + 1, !.consecutive = @ + 1]

\* handle_result's first block (lines 220-234): the error counters after a
\* completion with the given is_error.
count_error(errs, is_error) ==
    IF is_error
    THEN [total |-> errs.total + 1, consecutive |-> errs.consecutive + 1]
    ELSE [errs EXCEPT !.consecutive = 0]

\* too_many_errors with > in place of >=.
too_many_errors_off_by_one(errs, is_error, max_consecutive_errors) ==
    /\ is_error
    /\ max_consecutive_errors > 0
    /\ errs.consecutive > max_consecutive_errors

\* too_many_errors without the `max_consecutive_errors > 0` test.
too_many_errors_zero_trips(errs, is_error, max_consecutive_errors) ==
    /\ is_error
    /\ errs.consecutive >= max_consecutive_errors

\* The condition under which handle_result raises TooManyErrors.
too_many_errors(errs, is_error, max_consecutive_errors) ==
    /\ is_error
    /\ max_consecutive_errors > 0
    /\ errs.consecutive >= max_consecutive_errors

\* A threshold flush that empties the batch whether or not the write raised.
batch_after_flush_cleared(batch1, full, raised) == IF full THEN <<>> ELSE batch1

\* The batch after `batch.append(result)` and the threshold flush (lines
\* 239-246, 422-429): batch.clear() follows write_batch inside the try, so it
\* is skipped when write_batch raises.
batch_after_flush(batch1, full, raised) == IF full /\ ~raised THEN <<>> ELSE batch1

\* `for f in futures: f.cancel()`: cancel() takes effect on the futures that
\* are still queued.
cancel_all(futs) ==
    [j \in DOMAIN futs |-> IF futs[j] = "pending" THEN "cancelled" ELSE futs[j]]

\* except TooManyErrors (lines 277-284, 449-456): every future is cancelled
\* and the loop breaks.
cancel_futures ==
    /\ pc = "cancel"
    /\ futures' = cancel_all(futures)
    /\ pc' = "join"
    /\ UNCHANGED <<aside, command, args, registry, env, files, checkpoint, writer, entry_ids,
                   total_previously_scraped, batch, completed, errors, tripped,
                   calls, ret, exit_code, tally>>

\* One iteration of run_load's completion loop (lines 272-292) for a finished
\* future: future.result(), then handle_result (lines 218-258), up to its
\* return or its raise of TooManyErrors.
handle_result(i, fail, cp_fails) ==
    /\ pc = "loop" /\ command = "load"
    /\ i \in Positions /\ futures[i] \in Finished
    /\ LET outcome == futures[i]
           entry_id == entry_ids[i]
           is_error == outcome = "error"
           errs == count_error(errors, is_error)
       IN /\ errors' = errs
          /\ IF too_many_errors(errs, is_error, args.max_consecutive_errors)
             THEN /\ tripped' = TRUE
                  /\ futures' = [futures EXCEPT ![i] = "handled"]
                  /\ pc' = "cancel"
                  /\ UNCHANGED <<batch, writer, files, completed, checkpoint, tally>>
             ELSE /\ futures' = [futures EXCEPT ![i] = "handled"]
                  /\ UNCHANGED <<tripped, pc>>
                  /\ IF outcome # "ok"
                     THEN /\ tally' = [tally EXCEPT
                                         !.invalid = @ + (IF outcome = "invalid" THEN 1 ELSE 0)]
                          /\ UNCHANGED <<batch, writer, files, completed, checkpoint>>
                     ELSE LET result == ScrapeResult(entry_id.v, registry[entry_id.v])
                              batch1 == Append(batch, result)
                              full == Len(batch1) >= args.batch_size
                              wb == write_batch(writer, files, batch1, fail)
                              count == completed + 1
                          IN /\ batch' = batch_after_flush(batch1, full, wb.raised)
                             /\ writer' = IF full THEN wb.w ELSE writer
                             /\ files' = IF full THEN wb.fs ELSE files
                             /\ completed' = count
                             /\ checkpoint' =
                                    IF count % args.checkpoint_every = 0 /\ ~cp_fails
                                    THEN save_checkpoint(entry_id, count + total_previously_scraped)
                                    ELSE checkpoint
                             /\ tally' = IF full
                                          THEN [tally EXCEPT !.flattened = @ + RowCount(batch1)]
                                          ELSE tally
    /\ UNCHANGED <<aside, command, args, registry, env, entry_ids, total_previously_scraped,
                   calls, ret, exit_code>>

\* The `with ThreadPoolExecutor` block ends: the loop has taken every future,
\* or it broke and the workers still running have finished.
pool_exit ==
    /\ pc \in {"loop", "join"}
    /\ IF pc = "loop" THEN \A i \in Positions : futures[i] = "handled" ELSE Running = {}
    /\ pc' = "flush"
    /\ UNCHANGED <<aside, command, args, registry, env, files, checkpoint, writer, entry_ids,
                   total_previously_scraped, futures, batch, completed, errors,
                   tripped, calls, ret, exit_code, tally>>

\* Flush remaining batch (lines 297-302).
flush_remaining(fail) ==
    /\ pc = "flush" /\ command = "load"
    /\ IF batch # <<>>
       THEN LET wb == write_batch(writer, files, batch, fail)
            IN /\ writer' = wb.w
               /\ files' = wb.fs
               /\ calls' = Append(calls, Call("write_batch"))
               /\ tally' = [tally EXCEPT !.flattened = @ + RowCount(batch)]
       ELSE UNCHANGED <<writer, files, calls, tally>>
    /\ pc' = "checkpoint"
    /\ UNCHANGED <<aside, command, args, registry, env, checkpoint, entry_ids,
                   total_previously_scraped, futures, batch, completed, errors,
                   tripped, ret, exit_code>>

\* final_checkpoint that is skipped after the breaker tripped.
final_checkpoint_unless_tripped(cp_fails) ==
    /\ pc = "checkpoint" /\ command = "load"
    /\ LET cp == save_checkpoint(entry_ids[Len(entry_ids)],
                                 completed + total_previously_scraped)
       IN /\ calls' = IF tripped THEN calls ELSE Append(calls, CheckpointCall(cp))
          /\ checkpoint' = IF cp_fails \/ tripped THEN checkpoint ELSE cp
    /\ pc' = "compact"
    /\ UNCHANGED <<aside, command, args, registry, env, files, writer, entry_ids,
                   total_previously_scraped, futures, batch, completed, errors,
                   tripped, ret, exit_code, tally>>

\* Final checkpoint (lines 304-313).
final_checkpoint(cp_fails) ==
    /\ pc = "checkpoint" /\ command = "load"
    /\ LET cp == save_checkpoint(entry_ids[Len(entry_ids)],
                                 completed + total_previously_scraped)
       IN /\ calls' = Append(calls, CheckpointCall(cp))
          /\ checkpoint' = IF cp_fails THEN checkpoint ELSE cp
    /\ pc' = "compact"
    /\ UNCHANGED <<aside, command, args, registry, env, files, writer, entry_ids,
                   total_previously_scraped, futures, batch, completed, errors,
                   tripped, ret, exit_code, tally>>

\* writer.compact() (line 329).
compact_session ==
    /\ pc = "compact" /\ command = "load"
    /\ files' = compact(writer, files)
    /\ calls' = Append(calls, Call("compact"))
    /\ pc' = "close"
    /\ UNCHANGED <<aside, command, args, registry, env, checkpoint, writer, entry_ids,
                   total_previously_scraped, futures, batch, completed, errors,
                   tripped, ret, exit_code, tally>>

\* cmd_load that reports an aborted run (fewer entries than asked) as fatal.
cmd_load_exit_fatal(count) == IF count < MaxEntries THEN 2 ELSE 0

\* cmd_load after run_load returned (scrape.py lines 46-47): print, return 0.
cmd_load_exit(count) == 0

\* writer.close(); return count (lines 330-331), and cmd_load's return.
close_and_return ==
    /\ pc = "close" /\ command = "load"
    /\ calls' = Append(calls, Call("close"))
    /\ ret' = completed
    /\ exit_code' = cmd_load_exit(completed)
    /\ pc' = "done"
    /\ UNCHANGED <<aside, command, args, registry, env, files, checkpoint, writer, entry_ids,
                   total_previously_scraped, futures, batch, completed, errors,
                   tripped, tally>>

\* ------------------------------------------------------- a single run_load

\* The arguments tried on a fresh scope: the iterator is range(1, M+1).
LoadArgs ==
    [ids : {[i \in 1..MaxEntries |-> IntV(i)]},
     max_workers : {1, 2},
     checkpoint_every : {2},
     batch_size : {1, 2},
     max_consecutive_errors : {0, 2},
     resume_from_checkpoint : {TRUE}]

\* The state the command starts run_load / run_refresh in: a fresh writer
\* with session timestamp ts (scrape.py lines 30 and 52).
CommandStart(ts) ==
    /\ registry \in [1..(MaxEntries + 1) -> {BaseValue}]
    /\ writer = NewWriter(ts)
    /\ pc = "start"
    /\ entry_ids = <<>>
    /\ total_previously_scraped = 0
    /\ futures = <<>>
    /\ tally = NoTally
    /\ FreshRun

\* `scrape load` on an empty data directory: no file, no checkpoint.
Init ==
    /\ command = "load"
    /\ args \in LoadArgs
    /\ files = {}
    /\ checkpoint = NoCheckpoint
    /\ env = Hostile
    /\ CommandStart(1)

Next ==
    \/ run_load_start
    \/ \E i \in Positions : worker_start(i)
    \/ \E i \in Positions, outcome \in env.outcomes : worker(i, outcome)
    \/ \E i \in Positions, fail \in env.write_failures, cp_fails \in env.checkpoint_failures :
           handle_result(i, fail, cp_fails)
    \/ cancel_futures
    \/ pool_exit
    \/ \E fail \in env.write_failures : flush_remaining(fail)
    \/ \E cp_fails \in env.checkpoint_failures : final_checkpoint(cp_fails)
    \/ compact_session
    \/ close_and_return

Spec == Init /\ [][Next]_vars

\* ------------------------------------------- run_load after an earlier run

\* The iterator and the resume flag vary; the other arguments are fixed.
ResumeArgs ==
    [ids : Iterators,
     max_workers : {2},
     checkpoint_every : {2},
     batch_size : {2},
     max_consecutive_errors : {2},
     resume_from_checkpoint : BOOLEAN]

\* What an earlier session (timestamp 0) left behind after it loaded
\* range(1, k+1) with batch_size 1 and checkpointed at k: its batch files when
\* it was stopped before compact(), its compacted files otherwise.
RECURSIVE prior_batches(_, _, _)
prior_batches(i, k, st) ==
    IF i > k THEN st
    ELSE prior_batches(i + 1, k, write_batch(st.w, st.fs, <<ScrapeResult(i, BaseValue)>>, "none"))

PriorFiles(k, compacted) ==
    LET st == prior_batches(1, k, [w |-> NewWriter(0), fs |-> {}, raised |-> FALSE])
    IN IF compacted THEN compact(st.w, st.fs) ELSE st.fs

PriorRuns ==
    {[files |-> {}, checkpoint |-> NoCheckpoint]}
    \cup {[files |-> PriorFiles(k, k % 2 = 0), checkpoint |-> save_checkpoint(IntV(k), k)] :
            k \in 1..(MaxEntries + 1)}

\* `scrape load` on a data directory an earlier run wrote to.
InitResume ==
    /\ command = "load"
    /\ args \in ResumeArgs
    /\ \E prior \in PriorRuns : files = prior.files /\ checkpoint = prior.checkpoint
    /\ env = Hostile
    /\ CommandStart(1)

SpecResume == InitResume /\ [][Next]_vars

\* ------------------------------------------------------------ run_refresh

\* A refresh that preloads the hash cache before it looks at the known IDs.
refresh_writer_always(w, fs, ids) == preload_hashes(w, fs)

\* The writer after lines 359-371: `if not entry_ids` returns before
\* writer.preload_hashes() is reached.
refresh_writer(w, fs, ids) == IF ids = <<>> THEN w ELSE preload_hashes(w, fs)

\* run_refresh up to the opening of the pool (lines 359-379, 434-435): the
\* known IDs, the early return when there is none, preload_hashes, one future
\* per known ID.
run_refresh_start ==
    /\ pc = "start" /\ command = "refresh"
    /\ LET ids == get_known_entry_ids(files)
       IN /\ entry_ids' = ids
          /\ futures' = [i \in 1..Len(ids) |-> "pending"]
          /\ IF ids = <<>>
             THEN /\ calls' = <<Call("close")>>
                  /\ ret' = 0
                  /\ exit_code' = 0
                  /\ pc' = "done"
             ELSE /\ pc' = "loop"
                  /\ UNCHANGED <<calls, ret, exit_code>>
          /\ writer' = refresh_writer(writer, files, ids)
    /\ UNCHANGED <<aside, command, args, registry, env, files, checkpoint,
                   total_previously_scraped, batch, completed, errors, tripped, tally>>

\* One iteration of run_refresh's completion loop (lines 443-460) for a
\* finished future, with run_refresh's handle_result (lines 403-432).
refresh_handle_result(i, fail) ==
    /\ pc = "loop" /\ command = "refresh"
    /\ i \in Positions /\ futures[i] \in Finished
    /\ LET outcome == futures[i]
           entry_id == entry_ids[i]
           is_error == outcome = "error"
           errs == count_error(errors, is_error)
       IN /\ errors' = errs
          /\ IF too_many_errors(errs, is_error, args.max_consecutive_errors)
             THEN /\ tripped' = TRUE
                  /\ futures' = [futures EXCEPT ![i] = "handled"]
                  /\ pc' = "cancel"
                  /\ UNCHANGED <<batch, writer, files, completed, tally>>
             ELSE /\ futures' = [futures EXCEPT ![i] = "handled"]
                  /\ UNCHANGED <<tripped, pc>>
                  /\ IF outcome # "ok"
                     THEN /\ tally' = [tally EXCEPT
                                         !.invalid = @ + (IF outcome = "invalid" THEN 1 ELSE 0)]
                          /\ UNCHANGED <<batch, writer, files, completed>>
                     ELSE LET result == ScrapeResult(entry_id.v, registry[entry_id.v])
                              batch1 == Append(batch, result)
                              full == Len(batch1) >= args.batch_size
                              wb == write_batch(writer, files, batch1, fail)
                          IN /\ batch' = batch_after_flush(batch1, full, wb.raised)
                             /\ writer' = IF full THEN wb.w ELSE writer
                             /\ files' = IF full THEN wb.fs ELSE files
                             /\ completed' = completed + 1
                             /\ tally' = IF full
                                          THEN [tally EXCEPT !.flattened = @ + RowCount(batch1)]
                                          ELSE tally
    /\ UNCHANGED <<aside, command, args, registry, env, checkpoint, entry_ids,
                   total_previously_scraped, calls, ret, exit_code>>

\* A run_refresh that goes on to compact() without flushing the batch.
refresh_flush_skipped(fail) ==
    /\ pc = "flush" /\ command = "refresh"
    /\ pc' = "compact"
    /\ UNCHANGED <<aside, command, args, registry, env, files, checkpoint, writer, entry_ids,
                   total_previously_scraped, futures, batch, completed, errors,
                   tripped, calls, ret, exit_code, tally>>

\* run_refresh's flush of the remaining batch (lines 469-473).
refresh_flush(fail) ==
    /\ pc = "flush" /\ command = "refresh"
    /\ IF batch # <<>>
       THEN LET wb == write_batch(writer, files, batch, fail)
            IN /\ writer' = wb.w
               /\ files' = wb.fs
               /\ calls' = Append(calls, Call("write_batch"))
               /\ tally' = [tally EXCEPT !.flattened = @ + RowCount(batch)]
       ELSE UNCHANGED <<writer, files, calls, tally>>
    /\ pc' = "compact"
    /\ UNCHANGED <<aside, command, args, registry, env, checkpoint, entry_ids,
                   total_previously_scraped, futures, batch, completed, errors,
                   tripped, ret, exit_code>>

\* writer.compact() (line 487).
refresh_compact ==
    /\ pc = "compact" /\ command = "refresh"
    /\ files' = compact(writer, files)
    /\ calls' = Append(calls, Call("compact"))
    /\ pc' = "close"
    /\ UNCHANGED <<aside, command, args, registry, env, checkpoint, writer, entry_ids,
                   total_previously_scraped, futures, batch, completed, errors,
                   tripped, ret, exit_code, tally>>

\* writer.close(); return count (lines 488-489), and cmd_refresh's return 0.
refresh_close_and_return ==
    /\ pc = "close" /\ command = "refresh"
    /\ calls' = Append(calls, Call("close"))
    /\ ret' = completed
    /\ exit_code' = 0
    /\ pc' = "done"
    /\ UNCHANGED <<aside, command, args, registry, env, files, checkpoint, writer, entry_ids,
                   total_previously_scraped, futures, batch, completed, errors,
                   tripped, tally>>

\* The arguments tried for run_refresh.
RefreshArgs ==
    [max_workers : {2},
     batch_size : {1, 2},
     max_consecutive_errors : {0, 2}]

\* The value an entry shows once the site changed it.
ChangedValue == IntV(2)

\* `scrape refresh` on a scope an earlier session loaded range(1, M+1) into,
\* every entry at BaseValue; since then the site changed any of the entries.
InitRefresh ==
    /\ command = "refresh"
    /\ args \in RefreshArgs
    /\ files \in {PriorFiles(MaxEntries, c) : c \in BOOLEAN}
    /\ checkpoint = save_checkpoint(IntV(MaxEntries), MaxEntries)
    /\ env = Hostile
    /\ registry \in [1..(MaxEntries + 1) -> {BaseValue, ChangedValue}]
    /\ registry[MaxEntries + 1] = BaseValue
    /\ writer = NewWriter(1)
    /\ pc = "start"
    /\ entry_ids = <<>>
    /\ total_previously_scraped = 0
    /\ futures = <<>>
    /\ tally = NoTally
    /\ FreshRun

NextRefresh ==
    \/ run_refresh_start
    \/ \E i \in Positions : worker_start(i)
    \/ \E i \in Positions, outcome \in env.outcomes : worker(i, outcome)
    \/ \E i \in Positions, fail \in env.write_failures : refresh_handle_result(i, fail)
    \/ cancel_futures
    \/ pool_exit
    \/ \E fail \in env.write_failures : refresh_flush(fail)
    \/ refresh_compact
    \/ refresh_close_and_return

SpecRefresh == InitRefresh /\ [][NextRefresh]_vars

\* `scrape refresh` on a scope an earlier session loaded range(1, k+1) into,
\* for every k from 0 (a new data directory) to M; the site has changed
\* every entry since.
InitRefreshScope ==
    /\ command = "refresh"
    /\ args \in RefreshArgs
    /\ \E k \in 0..MaxEntries :
           /\ files = PriorFiles(k, FALSE)
           /\ checkpoint = IF k = 0 THEN NoCheckpoint ELSE save_checkpoint(IntV(k), k)
    /\ env = Hostile
    /\ registry = [pid \in 1..(MaxEntries + 1) |-> ChangedValue]
    /\ writer = NewWriter(1)
    /\ pc = "start"
    /\ entry_ids = <<>>
    /\ total_previously_scraped = 0
    /\ futures = <<>>
    /\ tally = NoTally
    /\ FreshRun

SpecRefreshScope == InitRefreshScope /\ [][NextRefresh]_vars

\* -------------------------------------------- run_load, killed and run again

\* The process is killed while run_load is between its start and its return;
\* `scrape load` is then run again on the same data directory, with
\* resume_from_checkpoint: a new writer, the files and the checkpoint as the
\* killed run left them.
kill_and_rerun ==
    /\ command = "load"
    /\ pc \in {"loop", "cancel", "join", "flush", "checkpoint", "compact", "close"}
    /\ writer.session_ts = 1
    /\ writer' = NewWriter(2)
    /\ pc' = "start"
    /\ entry_ids' = <<>>
    /\ total_previously_scraped' = 0
    /\ futures' = <<>>
    /\ tally' = NoTally
    /\ batch' = <<>>
    /\ completed' = 0
    /\ errors' = [total |-> 0, consecutive |-> 0]
    /\ tripped' = FALSE
    /\ calls' = <<>>
    /\ ret' = NotReturned
    /\ exit_code' = NotReturned
    /\ UNCHANGED <<aside, command, args, registry, env, files, checkpoint>>

\* The arguments of both runs: concurrent workers, range(1, M+1), resume.
CrashArgs ==
    [ids : {[i \in 1..MaxEntries |-> IntV(i)]},
     max_workers : {2},
     checkpoint_every : {1, 2},
     batch_size : {1, 2},
     max_consecutive_errors : {0},
     resume_from_checkpoint : {TRUE}]

\* `scrape load` on an empty data directory; every scrape succeeds and no
\* write fails.
InitCrash ==
    /\ command = "load"
    /\ args \in CrashArgs
    /\ files = {}
    /\ checkpoint = NoCheckpoint
    /\ env = Benign
    /\ CommandStart(1)

NextCrash ==
    \/ run_load_start
    \/ \E i \in Positions : worker_start(i)
    \/ \E i \in Positions, outcome \in env.outcomes : worker(i, outcome)
    \/ \E i \in Positions, fail \in env.write_failures, cp_fails \in env.checkpoint_failures :
           handle_result(i, fail, cp_fails)
    \/ pool_exit
    \/ \E fail \in env.write_failures : flush_remaining(fail)
    \/ \E cp_fails \in env.checkpoint_failures : final_checkpoint(cp_fails)
    \/ compact_session
    \/ close_and_return
    \/ kill_and_rerun

SpecCrash == InitCrash /\ [][NextCrash]_vars

\* --------------------------------- run_load, aborted and then run again

\* After run_load returned from a run the breaker cut short, `scrape load` is
\* run again on the same data directory with the same iterator and
\* resume_from_checkpoint; by then the site answers every request.  `probe`
\* keeps the entry IDs the aborted run scraped.
rerun_after_abort ==
    /\ command = "load"
    /\ pc = "done" /\ tripped
    /\ writer.session_ts = 1
    /\ probe' = [scraped |-> {entry_ids[i].v : i \in Scraped}]
    /\ env' = Benign
    /\ writer' = NewWriter(2)
    /\ pc' = "start"
    /\ entry_ids' = <<>>
    /\ total_previously_scraped' = 0
    /\ futures' = <<>>
    /\ tally' = NoTally
    /\ batch' = <<>>
    /\ completed' = 0
    /\ errors' = [total |-> 0, consecutive |-> 0]
    /\ tripped' = FALSE
    /\ calls' = <<>>
    /\ ret' = NotReturned
    /\ exit_code' = NotReturned
    /\ UNCHANGED <<rate_limiter, threads, clock, command, args, registry, files, checkpoint>>

\* The arguments of both runs: range(1, M+1), the breaker set, resume.
AbortArgs ==
    [ids : {[i \in 1..MaxEntries |-> IntV(i)]},
     max_workers : {1, 2},
     checkpoint_every : {2},
     batch_size : {2},
     max_consecutive_errors : {1, 2},
     resume_from_checkpoint : {TRUE}]

\* `scrape load` on an empty data directory while the site fails at will.
InitAbort ==
    /\ command = "load"
    /\ args \in AbortArgs
    /\ files = {}
    /\ checkpoint = NoCheckpoint
    /\ env = Hostile
    /\ CommandStart(1)

NextAbort ==
    \/ run_load_start
    \/ \E i \in Positions : worker_start(i)
    \/ \E i \in Positions, outcome \in env.outcomes : worker(i, outcome)
    \/ \E i \in Positions, fail \in env.write_failures, cp_fails \in env.checkpoint_failures :
           handle_result(i, fail, cp_fails)
    \/ cancel_futures
    \/ pool_exit
    \/ \E fail \in env.write_failures : flush_remaining(fail)
    \/ \E cp_fails \in env.checkpoint_failures : final_checkpoint(cp_fails)
    \/ compact_session
    \/ close_and_return
    \/ rerun_after_abort

SpecAbort == InitAbort /\ [][NextAbort]_vars

\* ------------------------------------- either command, with photo download

\* What worker() returns (lines 195-216 and 382-401): the photo hooks run
\* inside the same try as scrape_fn, after a scrape that returned a result;
\* an exception of theirs is caught by `except Exception` like a scrape error.
worker_result(outcome, download_photos, photo_raises) ==
    IF outcome = "ok" /\ download_photos /\ photo_raises THEN "error" ELSE outcome

\* worker(entry_id) returns, with download_photos as the command line set it.
worker_photos(i, outcome, photo_raises) ==
    /\ pc \in {"loop", "cancel", "join"}
    /\ i \in Running
    /\ futures' = [futures EXCEPT
                     ![i] = worker_result(outcome, args.download_photos, photo_raises)]
    /\ tally' = IF outcome = "ok" /\ args.download_photos /\ photo_raises
                THEN [tally EXCEPT !.photo_failed = @ \cup {i}]
                ELSE tally
    /\ UNCHANGED <<aside, command, args, registry, env, files, checkpoint, writer, pc,
                   entry_ids, total_previously_scraped, batch, completed, errors,
                   tripped, calls, ret, exit_code>>

\* The arguments tried: with and without --download-photos, with and
\* without the breaker.
EitherArgs ==
    [ids : {[i \in 1..MaxEntries |-> IntV(i)]},
     max_workers : {2},
     checkpoint_every : {2},
     batch_size : {2},
     max_consecutive_errors : {0, 2},
     resume_from_checkpoint : {TRUE},
     download_photos : BOOLEAN]

\* `scrape load` on an empty data directory, or `scrape refresh` on a scope
\* an earlier session loaded, every entry of which the site has changed.
InitEither ==
    /\ command \in {"load", "refresh"}
    /\ args \in EitherArgs
    /\ files = IF command = "load" THEN {} ELSE PriorFiles(MaxEntries, TRUE)
    /\ checkpoint = NoCheckpoint
    /\ env = Hostile
    /\ registry = [pid \in 1..(MaxEntries + 1) |-> ChangedValue]
    /\ writer = NewWriter(1)
    /\ pc = "start"
    /\ entry_ids = <<>>
    /\ total_previously_scraped = 0
    /\ futures = <<>>
    /\ tally = NoTally
    /\ FreshRun

NextEither ==
    \/ run_load_start
    \/ run_refresh_start
    \/ \E i \in Positions : worker_start(i)
    \/ \E i \in Positions, outcome \in env.outcomes, photo_raises \in BOOLEAN :
           worker_photos(i, outcome, photo_raises)
    \/ \E i \in Positions, fail \in env.write_failures, cp_fails \in env.checkpoint_failures :
           handle_result(i, fail, cp_fails)
    \/ \E i \in Positions, fail \in env.write_failures : refresh_handle_result(i, fail)
    \/ cancel_futures
    \/ pool_exit
    \/ \E fail \in env.write_failures : flush_remaining(fail)
    \/ \E fail \in env.write_failures : refresh_flush(fail)
    \/ \E cp_fails \in env.checkpoint_failures : final_checkpoint(cp_fails)
    \/ compact_session
    \/ refresh_compact
    \/ close_and_return
    \/ refresh_close_and_return

SpecEither == InitEither /\ [][NextEither]_vars

\* ------------------------------------------------------------ RateLimiter

\* The threads that call acquire(), the resolution of the clock, and the
\* instant after which the clock is no longer advanced.
MaxThreads == 3

TicksPerSecond == 2

MaxClock == 6

Threads == 1..MaxThreads

\* RateLimiter.__init__ (lines 38-44): min_interval = 1.0 / rps, 0 when rps = 0.
NewRateLimiter(max_workers, requests_per_second) ==
    [max_workers |-> max_workers,
     permits |-> max_workers,
     min_interval |-> IF requests_per_second > 0
                      THEN TicksPerSecond \div requests_per_second ELSE 0,
     last_request_time |-> 0,
     lock |-> 0,
     total_requests |-> 0,
     total_wait_time |-> 0]

\* A thread that has not called acquire() yet.
NewThread == [pc |-> "idle", wait |-> 0, slot |-> 0, turn |-> 0]

\* A Semaphore that hands out a permit whatever its counter says.
semaphore_free_always(rl) == TRUE

\* threading.Semaphore: acquire() succeeds when the counter is positive.
semaphore_free(rl) == rl.permits > 0

\* self.semaphore.acquire(timeout=300) returned True (line 48).
semaphore_acquire(t) ==
    /\ threads[t].pc = "idle"
    /\ semaphore_free(rate_limiter)
    /\ rate_limiter' = [rate_limiter EXCEPT !.permits = @ - 1]
    /\ threads' = [threads EXCEPT ![t].pc = "holding"]
    /\ UNCHANGED <<run_state, clock, probe>>

\* The acquire timed out (lines 49-50): TimeoutError, nothing to release.
semaphore_timeout(t) ==
    /\ threads[t].pc = "idle"
    /\ ~semaphore_free(rate_limiter)
    /\ threads' = [threads EXCEPT ![t].pc = "timed_out"]
    /\ UNCHANGED <<run_state, rate_limiter, clock, probe>>

\* The locked block with last_request_time = now: the slot is not pushed back
\* by the wait.
reserve_slot_at_now(rl, now) ==
    LET elapsed == now - rl.last_request_time
        wait == IF elapsed < rl.min_interval THEN rl.min_interval - elapsed ELSE 0
    IN [rl |-> [rl EXCEPT !.last_request_time = now,
                         !.total_requests = @ + 1],
        wait |-> wait]

\* The locked block of acquire() (lines 55-63) when min_interval > 0.
reserve_slot(rl, now) ==
    LET elapsed == now - rl.last_request_time
        wait == IF elapsed < rl.min_interval THEN rl.min_interval - elapsed ELSE 0
    IN [rl |-> [rl EXCEPT !.last_request_time = now + wait,
                         !.total_requests = @ + 1],
        wait |-> wait]

\* The legacy acquire (src/vgsi/parallel.py lines 50-58): time.sleep(wait) is
\* called inside `with self.lock`, so the sleeping thread holds the lock.
lock_after_reserve_legacy(t, wait) == IF wait > 0 THEN t ELSE 0

\* self.lock (0: free, else the thread holding it) when the thread leaves the
\* locked block of lines 55-63: the block ends before the sleep of line 66.
lock_after_reserve(t, wait) == 0

\* Lines 53-63: with min_interval > 0 the thread reserves its slot under the
\* lock; with min_interval = 0 the whole block is skipped.
reserve(t) ==
    /\ threads[t].pc = "holding"
    /\ rate_limiter.min_interval > 0 => rate_limiter.lock = 0
    /\ LET r == IF rate_limiter.min_interval > 0
                THEN reserve_slot(rate_limiter, clock)
                ELSE [rl |-> rate_limiter, wait |-> 0]
       IN /\ rate_limiter' = [r.rl EXCEPT !.lock = IF rate_limiter.min_interval > 0
                                                    THEN lock_after_reserve(t, r.wait)
                                                    ELSE @]
          /\ threads' = [threads EXCEPT ![t].pc = "reserved",
                                        ![t].wait = r.wait,
                                        ![t].slot = clock + r.wait,
                                        ![t].turn = r.rl.total_requests]
    /\ UNCHANGED <<run_state, clock, probe>>

\* Lines 65-69: time.sleep(wait) has returned (it sleeps at least `wait`),
\* total_wait_time is updated under the lock, and the lease body begins at
\* the yield.
lease_begin(t) ==
    /\ threads[t].pc = "reserved"
    /\ clock >= threads[t].slot
    /\ threads[t].wait > 0 => rate_limiter.lock = 0
    /\ rate_limiter' = [rate_limiter EXCEPT !.total_wait_time = @ + threads[t].wait]
    /\ threads' = [threads EXCEPT ![t].pc = "body"]
    /\ UNCHANGED <<run_state, clock, probe>>

\* A release that is skipped when the body raised.
released_unless_raised(rl, raised) ==
    [rl EXCEPT !.permits = @ + (IF raised THEN 0 ELSE 1)]

\* finally: self.semaphore.release() (lines 70-71).
released(rl, raised) == [rl EXCEPT !.permits = @ + 1]

\* The body of the `with` ends: scrape and photo download returned, or one of
\* them raised; either way the generator's finally block runs.
lease_end(t, raised) ==
    /\ threads[t].pc = "body"
    /\ rate_limiter' = released(rate_limiter, raised)
    /\ threads' = [threads EXCEPT ![t].pc = IF raised THEN "failed" ELSE "done"]
    /\ UNCHANGED <<run_state, clock, probe>>

\* Time passes while some thread has not finished.
tick ==
    /\ clock < MaxClock
    /\ \E t \in Threads : threads[t].pc \in {"idle", "holding", "reserved", "body"}
    /\ clock' = clock + 1
    /\ UNCHANGED <<run_state, rate_limiter, threads, probe>>

\* get_stats() (lines 73-84).
get_stats(rl) ==
    [total_requests |-> rl.total_requests, total_wait_time |-> rl.total_wait_time]

\* The orchestrator is not running.
NoRun ==
    /\ command = "none"
    /\ args = <<>>
    /\ registry = <<>>
    /\ env = Benign
    /\ files = {}
    /\ checkpoint = NoCheckpoint
    /\ writer = NewWriter(0)
    /\ pc = "none"
    /\ entry_ids = <<>>
    /\ total_previously_scraped = 0
    /\ futures = <<>>
    /\ tally = NoTally
    /\ batch = <<>>
    /\ completed = 0
    /\ errors = [total |-> 0, consecutive |-> 0]
    /\ tripped = FALSE
    /\ calls = <<>>
    /\ ret = NotReturned
    /\ exit_code = NotReturned

\* MaxThreads threads share one RateLimiter(max_workers, rps); the clock
\* stands one second after the epoch, later than any min_interval.
InitLimiter ==
    /\ NoRun
    /\ \E max_workers \in {1, 2}, requests_per_second \in {0, 1, 2} :
           rate_limiter = NewRateLimiter(max_workers, requests_per_second)
    /\ threads = [t \in Threads |-> NewThread]
    /\ clock = TicksPerSecond
    /\ probe = <<>>

NextLimiter ==
    \/ \E t \in Threads : semaphore_acquire(t)
    \/ \E t \in Threads : semaphore_timeout(t)
    \/ \E t \in Threads : reserve(t)
    \/ \E t \in Threads : lease_begin(t)
    \/ \E t \in Threads, raised \in BOOLEAN : lease_end(t, raised)
    \/ tick

SpecLimiter == InitLimiter /\ [][NextLimiter]_vars

\* ------------------------------------------- compute_row_hash, on a dict

\* Largest number of items a dict under test holds.
MaxItems == 3

\* The column names the dicts draw from, in the order Python sorts strings.
Columns == <<"name", "owner", "scraped_at", "status">>

ColumnRank(k) == CHOOSE i \in 1..Len(Columns) : Columns[i] = k

\* The values a column takes: an int, or None.
Values == {IntV(1), NoneV}

\* A dict is the sequence of its (key, value) items in insertion order.
dict_keys(data) == {data[i][1] : i \in 1..Len(data)}

\* data.get(k): the value stored under k, None when k is absent.
dict_get(data, k) ==
    IF k \in dict_keys(data)
    THEN (CHOOSE it \in Range(data) : it[1] = k)[2]
    ELSE NoneV

\* data[k] = v: a new key goes last, a key already present keeps its place.
dict_set(data, k, v) ==
    IF k \in dict_keys(data)
    THEN [i \in 1..Len(data) |-> IF data[i][1] = k THEN <<k, v>> ELSE data[i]]
    ELSE Append(data, <<k, v>>)

\* sorted(data.items()): the items by ascending key (keys are distinct, so
\* the values are never compared).
sorted_items(data) ==
    LET ranks == SortedSeq({ColumnRank(k) : k \in dict_keys(data)})
    IN [j \in 1..Len(data) |-> CHOOSE it \in Range(data) : ColumnRank(it[1]) = ranks[j]]

Stringified(items) == [j \in 1..Len(items) |-> <<items[j][1], Str(items[j][2])>>]

\* hash_data that keeps the columns whose value is None.
hash_data_with_none(data, exclude) ==
    Stringified(SelectSeq(sorted_items(data), LAMBDA it : it[1] \notin exclude))

\* hash_data (lines 34-38): {k: str(v)} over the sorted items whose key is
\* not excluded and whose value is not None.
hash_data(data, exclude) ==
    Stringified(SelectSeq(sorted_items(data),
                          LAMBDA it : it[1] \notin exclude /\ it[2] # NoneV))

\* json.dumps(hash_data, sort_keys=True): the members by ascending key.
json_dumps(d) == sorted_items(d)

\* compute_row_hash(data) on a dict with extra_exclude = None (lines 33-40).
\* MD5 is taken as injective on the canonical JSON.
compute_row_hash_dict(data) == json_dumps(hash_data(data, DEFAULT_EXCLUDE))

\* The row a dict stands for, as the writer's rows are modelled.
as_row(data) == [k \in dict_keys(data) |-> dict_get(data, k)]

NoHash == <<"unhashed">>

\* Two dicts are filled item by item.
row_set(side, k, v) ==
    /\ ~probe.hashed
    /\ k \in dict_keys(probe.data[side]) \/ Len(probe.data[side]) < MaxItems
    /\ probe' = [probe EXCEPT !.data[side] = dict_set(@, k, v)]
    /\ UNCHANGED <<run_state, rate_limiter, threads, clock>>

\* Both dicts are hashed.
row_hash ==
    /\ ~probe.hashed
    /\ probe' = [probe EXCEPT !.hashed = TRUE,
                              !.hash = <<compute_row_hash_dict(probe.data[1]),
                                         compute_row_hash_dict(probe.data[2])>>]
    /\ UNCHANGED <<run_state, rate_limiter, threads, clock>>

InitHash ==
    /\ NoRun
    /\ rate_limiter = <<>>
    /\ threads = <<>>
    /\ clock = 0
    /\ probe = [data |-> << <<>>, <<>> >>, hash |-> <<NoHash, NoHash>>, hashed |-> FALSE]

NextHash ==
    \/ \E side \in {1, 2}, k \in Range(Columns), v \in Values : row_set(side, k, v)
    \/ row_hash

SpecHash == InitHash /\ [][NextHash]_vars

\* ------------------------- compute_row_hash, on a row before and after

\* The values a column shows at two scrapes: an int, another int, the text
\* of the first int, or None.
ChangeValues == {IntV(1), IntV(2), StrV(<<"1">>), NoneV}

\* The rows compared: dicts over the columns name and status.
ChangeDicts ==
    {<<>>}
    \cup {<< <<"name", v>> >> : v \in ChangeValues}
    \cup {<< <<"status", v>> >> : v \in ChangeValues}
    \cup {<< <<"name", v>>, <<"status", w>> >> : v, w \in ChangeValues}

\* A stored row and the row a later scrape returns for it.
InitChange ==
    /\ NoRun
    /\ rate_limiter = <<>>
    /\ threads = <<>>
    /\ clock = 0
    /\ \E d1, d2 \in ChangeDicts :
           probe = [data |-> <<d1, d2>>, hash |-> <<NoHash, NoHash>>, hashed |-> FALSE]

NextChange == row_hash

SpecChange == InitChange /\ [][NextChange]_vars

\* ------------------------------------------------- the checkpoint file

\* What <data_dir>/_checkpoints/<scope_key>.json holds: nothing (no file),
\* bytes that are not UTF-8, or a JSON text: an object with its members, or a
\* value that is not an object.  `cut` marks a text that stops before its end.
NoFile == [form |-> "missing", members |-> <<>>, cut |-> FALSE]

\* json.dumps(cp) as save_checkpoint writes it (lines 189-195); the member
\* checkpoint_time is never read back and stands as a fixed string.
checkpoint_text(scope_key, last_entry_id, total_scraped) ==
    [form |-> "object",
     members |-> [scope_key |-> StrV(scope_key),
                  last_entry_id |-> StrV(save_checkpoint(last_entry_id, total_scraped).last_entry_id),
                  total_scraped |-> IntV(total_scraped),
                  checkpoint_time |-> StrV(<<"t">>)],
     cut |-> FALSE]

\* The ways a checkpoint file is found damaged.
Damages == {"delete", "truncate", "drop_last_entry_id", "drop_total_scraped",
            "array", "null", "bytes"}

Without(members, k) == [c \in DOMAIN members \ {k} |-> members[c]]

damaged(file, how) ==
    IF how = "delete" THEN NoFile
    ELSE IF how = "truncate" THEN [file EXCEPT !.cut = TRUE]
    ELSE IF how = "drop_last_entry_id"
         THEN [file EXCEPT !.members = Without(@, "last_entry_id")]
    ELSE IF how = "drop_total_scraped"
         THEN [file EXCEPT !.members = Without(@, "total_scraped")]
    ELSE [form |-> how, members |-> <<>>, cut |-> FALSE]

\* path.read_text(): UnicodeDecodeError on bytes that are not UTF-8.
read_text(file) == [raised |-> file.form = "bytes", text |-> file]

\* json.loads(text): JSONDecodeError on a text that stops early, else the
\* value: a dict for an object, a list, or None.
json_loads(text) ==
    IF text.cut THEN [raised |-> TRUE, form |-> "none", members |-> <<>>]
    ELSE [raised |-> FALSE, form |-> text.form, members |-> text.members]

NotRead == [raised |-> "unread", cp |-> NoCheckpoint]

Returned(cp) == [raised |-> "none", cp |-> cp]

Raised(e) == [raised |-> e, cp |-> NoCheckpoint]

\* get_last_checkpoint on the file (lines 201-215): (None, 0) for no file;
\* JSONDecodeError and KeyError are caught and give (None, 0); subscripting a
\* value that is not a dict is a TypeError, which is not caught, and neither
\* is read_text's UnicodeDecodeError.
read_checkpoint(file) ==
    IF file.form = "missing" THEN Returned(NoCheckpoint)
    ELSE IF read_text(file).raised THEN Raised("UnicodeDecodeError")
    ELSE LET cp == json_loads(read_text(file).text)
         IN IF cp.raised THEN Returned(NoCheckpoint)
            ELSE IF cp.form # "object" THEN Raised("TypeError")
            ELSE IF {"last_entry_id", "total_scraped"} \subseteq DOMAIN cp.members
                 THEN Returned([present |-> TRUE,
                                last_entry_id |-> cp.members.last_entry_id.v,
                                total_scraped |-> cp.members.total_scraped.v])
                 ELSE Returned(NoCheckpoint)

\* writer.save_checkpoint(scope_key, last_entry_id, total_scraped)
checkpoint_save(last_entry_id, total_scraped) ==
    /\ checkpoint' = save_checkpoint(IntV(last_entry_id), total_scraped)
    /\ probe' = [file |-> checkpoint_text("testcity", IntV(last_entry_id), total_scraped),
                 read |-> NotRead]
    /\ UNCHANGED <<command, args, registry, env, files, writer, pc, entry_ids,
                   total_previously_scraped, futures, tally, batch, completed, errors,
                   tripped, calls, ret, exit_code, rate_limiter, threads, clock>>

\* Between two runs the file is damaged.
checkpoint_damage(how) ==
    /\ probe.file.form = "object"
    /\ how \in {"drop_last_entry_id", "drop_total_scraped"} => ~probe.file.cut
    /\ probe' = [file |-> damaged(probe.file, how), read |-> NotRead]
    /\ probe'.file # probe.file
    /\ UNCHANGED <<run_state, rate_limiter, threads, clock>>

\* writer.get_last_checkpoint(scope_key)
checkpoint_read ==
    /\ probe' = [probe EXCEPT !.read = read_checkpoint(probe.file)]
    /\ UNCHANGED <<run_state, rate_limiter, threads, clock>>

\* A new data directory: no checkpoint file.
InitCheckpoint ==
    /\ NoRun
    /\ rate_limiter = <<>>
    /\ threads = <<>>
    /\ clock = 0
    /\ probe = [file |-> NoFile, read |-> NotRead]

NextCheckpoint ==
    \/ \E last_entry_id \in 1..MaxEntries, total_scraped \in 0..MaxEntries :
           checkpoint_save(last_entry_id, total_scraped)
    \/ \E how \in Damages : checkpoint_damage(how)
    \/ checkpoint_read

SpecCheckpoint == InitCheckpoint /\ [][NextCheckpoint]_vars

\* ------------------------------------- ParquetWriter, called directly

\* Number of write_batch calls made on one writer.
MaxBatches == 3

\* What scrape_fn returns for a page whose extra-features table shows the
\* same line n times: parse_table_rows yields one dict per table row, and
\* scrape adds property_uuid and pid to each.
FeatureResult(pid, n) ==
    [ScrapeResult(pid, BaseValue) EXCEPT
        !.extra_features = [j \in 1..n |->
                               [property_uuid |-> StrV(<<"t", "-">> \o IntStr(pid)),
                                pid |-> IntV(pid),
                                description |-> StrV(<<"s", "h", "e", "d">>)]]]

\* The batches handed to write_batch: one result, two results of different
\* entries, and two results of the same entry.
WriterBatches ==
    {<<ScrapeResult(2, BaseValue)>>, <<FeatureResult(1, 1)>>, <<FeatureResult(1, 2)>>,
     <<ScrapeResult(2, BaseValue), FeatureResult(1, 1)>>,
     <<FeatureResult(1, 1), FeatureResult(1, 2)>>}

\* writer.preload_hashes(), before the first batch is written.
call_preload_hashes ==
    /\ ~writer.hashes_loaded
    /\ writer.batch_num = 0
    /\ writer' = preload_hashes(writer, files)
    /\ UNCHANGED <<command, args, registry, env, files, checkpoint, pc, entry_ids,
                   total_previously_scraped, futures, batch, completed, errors, tripped,
                   calls, ret, exit_code, tally, aside>>

\* writer.write_batch(results); `fail` is the table whose file write raises.
\* probe keeps the last call: its argument and whether it raised.
call_write_batch(results, fail) ==
    /\ writer.batch_num < MaxBatches
    /\ LET st == write_batch(writer, files, results, fail)
       IN /\ writer' = st.w
          /\ files' = st.fs
          /\ probe' = [op |-> "write_batch", results |-> results, raised |-> st.raised]
    /\ UNCHANGED <<command, args, registry, env, checkpoint, pc, entry_ids,
                   total_previously_scraped, futures, batch, completed, errors, tripped,
                   calls, ret, exit_code, tally, rate_limiter, threads, clock>>

\* compact() in which the COPY of table `fail` raises ("none": no COPY
\* raises): the exception leaves the loop before that table's batch files are
\* unlinked, and the tables after it are not compacted.  A table with at most
\* one batch file is skipped before any COPY.
RECURSIVE compact_raising(_, _, _, _)
compact_raising(i, fs, ts, fail) ==
    IF i > Len(Tables) THEN [fs |-> fs, raised |-> FALSE]
    ELSE IF Tables[i] = fail /\ Cardinality(session_files(fs, Tables[i], ts)) > 1
    THEN [fs |-> fs, raised |-> TRUE]
    ELSE compact_raising(i + 1, compact_table(fs, Tables[i], ts), ts, fail)

\* writer.compact(), at any point of the writer's life.
call_compact(fail) ==
    /\ LET st == compact_raising(1, files, writer.session_ts, fail)
       IN /\ files' = st.fs
          /\ probe' = [op |-> "compact", results |-> <<>>, raised |-> st.raised]
    /\ UNCHANGED <<command, args, registry, env, checkpoint, writer, pc, entry_ids,
                   total_previously_scraped, futures, batch, completed, errors, tripped,
                   calls, ret, exit_code, tally, rate_limiter, threads, clock>>

\* A new writer (session 1) on a scope directory that is empty or holds what
\* an earlier session stored for entries 1 and 2.
InitWriter ==
    /\ command = "none"
    /\ args = <<>>
    /\ registry = <<>>
    /\ env = Benign
    /\ files \in {{}, PriorFiles(2, FALSE)}
    /\ checkpoint = NoCheckpoint
    /\ writer = NewWriter(1)
    /\ pc = "none"
    /\ entry_ids = <<>>
    /\ total_previously_scraped = 0
    /\ futures = <<>>
    /\ tally = NoTally
    /\ batch = <<>>
    /\ completed = 0
    /\ errors = [total |-> 0, consecutive |-> 0]
    /\ tripped = FALSE
    /\ calls = <<>>
    /\ ret = NotReturned
    /\ exit_code = NotReturned
    /\ rate_limiter = <<>>
    /\ threads = <<>>
    /\ clock = 0
    /\ probe = [op |-> "none", results |-> <<>>, raised |-> FALSE]

NextWriter ==
    \/ call_preload_hashes
    \/ \E results \in WriterBatches, fail \in TableSet \cup {"none"} :
           call_write_batch(results, fail)
    \/ \E fail \in TableSet \cup {"none"} : call_compact(fail)

SpecWriter == InitWriter /\ [][NextWriter]_vars

\* --------------------------- write_batch, called by two threads at once

\* The threads that call write_batch on one writer.
WriterThreads == {1, 2}

\* A thread outside write_batch.
NoCall == [pc |-> "idle", tabs |-> <<>>, now |-> <<>>, batch_num |-> 0, i |-> 1,
           shared |-> FALSE, new_rows |-> <<>>]

\* Lines 123-124: tables = flatten_fn(results); now = datetime.now().
wb_call(t, results) ==
    /\ threads[t].pc = "idle"
    /\ threads' = [threads EXCEPT ![t] =
                      [NoCall EXCEPT !.pc = "lock", !.tabs = flatten_fn(results),
                                     !.now = <<writer.session_ts, t>>]]
    /\ UNCHANGED <<run_state, rate_limiter, clock, probe>>

\* Line 127 without line 128: the batch number is taken, the counter stays.
wb_take_number_no_increment(t) ==
    /\ threads[t].pc = "lock"
    /\ threads' = [threads EXCEPT ![t].batch_num = writer.batch_num, ![t].pc = "filter"]
    /\ UNCHANGED <<run_state, rate_limiter, clock, probe>>

\* Lines 126-128, under self._lock: the batch number is taken and the counter
\* is increased.  The lock is released before the loop over the tables.
wb_take_number(t) ==
    /\ threads[t].pc = "lock"
    /\ threads' = [threads EXCEPT ![t].batch_num = writer.batch_num, ![t].pc = "filter"]
    /\ writer' = [writer EXCEPT !.batch_num = @ + 1]
    /\ UNCHANGED <<command, args, registry, env, files, checkpoint, pc, entry_ids,
                   total_previously_scraped, futures, batch, completed, errors, tripped,
                   calls, ret, exit_code, tally, rate_limiter, clock, probe>>

\* Lines 130-142 for the table the loop stands at: the rows get scraped_at and
\* row_hash, `known` is read from the cache (a new set when the table has no
\* entry) and the rows whose hash is not in it are kept.  The loop is left
\* after the last table.
wb_filter(t) ==
    /\ threads[t].pc = "filter"
    /\ IF threads[t].i > Len(Tables)
       THEN /\ threads' = [threads EXCEPT ![t].pc = "returned"]
            /\ UNCHANGED writer
       ELSE LET tn == Tables[threads[t].i]
                rows == [j \in 1..Len(threads[t].tabs[tn]) |->
                            Augment(threads[t].tabs[tn][j], threads[t].now)]
                shared == tn \in DOMAIN writer.existing_hashes
                known == IF shared THEN writer.existing_hashes[tn] ELSE {}
                new_rows == IF writer.hashes_loaded THEN NewRows(rows, known) ELSE rows
            IN IF rows = <<>>
               THEN /\ threads' = [threads EXCEPT ![t].i = @ + 1]
                    /\ UNCHANGED writer
               ELSE /\ threads' = [threads EXCEPT ![t].new_rows = new_rows,
                                                  ![t].shared = shared,
                                                  ![t].pc = "add"]
                    /\ writer' = IF writer.hashes_loaded
                                 THEN [writer EXCEPT
                                          !.rows_skipped = @ + (Len(rows) - Len(new_rows))]
                                 ELSE writer
    /\ UNCHANGED <<command, args, registry, env, files, checkpoint, pc, entry_ids,
                   total_previously_scraped, futures, batch, completed, errors, tripped,
                   calls, ret, exit_code, tally, rate_limiter, clock, probe>>

\* Lines 144-151: the hashes of the kept rows are added to `known`; a set
\* that was new is stored in the cache unless the table has an entry by now.
wb_add(t) ==
    /\ threads[t].pc = "add"
    /\ LET tn == Tables[threads[t].i]
           added == {r.row_hash : r \in Range(threads[t].new_rows)}
       IN writer' =
              IF ~writer.hashes_loaded THEN writer
              ELSE IF threads[t].shared
              THEN [writer EXCEPT !.existing_hashes[tn] = @ \cup added]
              ELSE IF tn \in DOMAIN writer.existing_hashes
              THEN writer
              ELSE [writer EXCEPT !.existing_hashes = (tn :> added) @@ @]
    /\ threads' = IF threads[t].new_rows = <<>>
                  THEN [threads EXCEPT ![t].i = @ + 1, ![t].pc = "filter"]
                  ELSE [threads EXCEPT ![t].pc = "write"]
    /\ UNCHANGED <<command, args, registry, env, files, checkpoint, pc, entry_ids,
                   total_previously_scraped, futures, batch, completed, errors, tripped,
                   calls, ret, exit_code, tally, rate_limiter, clock, probe>>

\* Lines 153-159: rows_written is increased and the file of the table is
\* written; when _write_parquet raises the call is left.
wb_write(t, raises) ==
    /\ threads[t].pc = "write"
    /\ writer' = [writer EXCEPT !.rows_written = @ + Len(threads[t].new_rows)]
    /\ IF raises
       THEN /\ threads' = [threads EXCEPT ![t].pc = "raised"]
            /\ UNCHANGED files
       ELSE /\ threads' = [threads EXCEPT ![t].i = @ + 1, ![t].pc = "filter"]
            /\ files' = WriteFile(files, File(Tables[threads[t].i], writer.session_ts,
                                              threads[t].batch_num, threads[t].new_rows))
    /\ UNCHANGED <<command, args, registry, env, checkpoint, pc, entry_ids,
                   total_previously_scraped, futures, batch, completed, errors, tripped,
                   calls, ret, exit_code, tally, rate_limiter, clock, probe>>

\* One writer with its hash cache loaded, shared by the threads.
InitConcurrent ==
    /\ command = "none"
    /\ args = <<>>
    /\ registry = <<>>
    /\ env = Benign
    /\ files \in {{}, PriorFiles(2, FALSE)}
    /\ checkpoint = NoCheckpoint
    /\ writer = preload_hashes(NewWriter(1), files)
    /\ pc = "none"
    /\ entry_ids = <<>>
    /\ total_previously_scraped = 0
    /\ futures = <<>>
    /\ tally = NoTally
    /\ batch = <<>>
    /\ completed = 0
    /\ errors = [total |-> 0, consecutive |-> 0]
    /\ tripped = FALSE
    /\ calls = <<>>
    /\ ret = NotReturned
    /\ exit_code = NotReturned
    /\ rate_limiter = <<>>
    /\ threads = [t \in WriterThreads |-> NoCall]
    /\ clock = 0
    /\ probe = <<>>

NextConcurrent ==
    \/ \E t \in WriterThreads, results \in WriterBatches : wb_call(t, results)
    \/ \E t \in WriterThreads : wb_take_number(t)
    \/ \E t \in WriterThreads : wb_filter(t)
    \/ \E t \in WriterThreads : wb_add(t)
    \/ \E t \in WriterThreads, raises \in BOOLEAN : wb_write(t, raises)

SpecConcurrent == InitConcurrent /\ [][NextConcurrent]_vars

\* ------------------- the orchestrator, its locks and the pool's leases

\* The completion loop's thread inside handle_result: where it stands, the
\* position it handles, the locks it holds (batch_lock and state_lock of the
\* run, self._lock of the writer) and the writer call it is inside of.
NoHandler ==
    [at |-> "idle", i |-> 0, batch_lock |-> FALSE, state_lock |-> FALSE,
     writer_lock |-> FALSE, io |-> "none"]

\* A pool thread that took the future of position i calls
\* rate_limiter.acquire(): the semaphore hands it a permit.
pool_acquire(i) ==
    /\ i \in Running
    /\ semaphore_acquire(i)

\* time.sleep(wait) (engine.py line 66): the thread wakes when the clock
\* stands at its slot.  Time passes in this specification only while a
\* thread sleeps.
sleep(t) ==
    /\ threads[t].pc = "reserved"
    /\ clock < threads[t].slot
    /\ clock' = threads[t].slot
    /\ UNCHANGED <<run_state, rate_limiter, threads, probe>>

\* A worker that hands its result to the writer itself before it returns.
pool_worker_return_writing(i, outcome) ==
    /\ pc \in {"loop", "cancel", "join"}
    /\ i \in Running
    /\ threads[i].pc = IF outcome = "ok" THEN "done" ELSE "failed"
    /\ futures' = [futures EXCEPT ![i] = outcome]
    /\ LET wb == write_batch(writer, files,
                             <<ScrapeResult(entry_ids[i].v, registry[entry_ids[i].v])>>, "none")
       IN writer' = wb.w /\ files' = wb.fs
    /\ UNCHANGED <<aside, command, args, registry, env, checkpoint, pc, entry_ids,
                   total_previously_scraped, batch, completed, errors, tripped,
                   calls, ret, exit_code, tally>>

\* worker(entry_id) returns after its `with rate_limiter.acquire()` block:
\* (result, False) when the body ended normally, (None, is_error) when the
\* scrape raised (lines 193-216, 381-401).
pool_worker_return(i, outcome) ==
    /\ threads[i].pc = IF outcome = "ok" THEN "done" ELSE "failed"
    /\ worker(i, outcome)

\* handle_result, first block (lines 220-234, 404-417): under state_lock the
\* error counters are updated and TooManyErrors is raised when the breaker
\* trips; the lock is released when the block is left, also by the raise.
\* Lines 236-237: a result of None ends the call.
hr_errors(i) ==
    /\ pc = "loop" /\ probe.at = "idle"
    /\ i \in Positions /\ futures[i] \in Finished
    /\ ~probe.state_lock
    /\ LET is_error == futures[i] = "error"
           errs == count_error(errors, is_error)
       IN /\ errors' = errs
          /\ IF too_many_errors(errs, is_error, args.max_consecutive_errors)
             THEN /\ tripped' = TRUE
                  /\ futures' = [futures EXCEPT ![i] = "handled"]
                  /\ pc' = "cancel"
                  /\ UNCHANGED <<tally, probe>>
             ELSE IF futures[i] # "ok"
             THEN /\ futures' = [futures EXCEPT ![i] = "handled"]
                  /\ tally' = [tally EXCEPT
                                 !.invalid = @ + (IF futures[i] = "invalid" THEN 1 ELSE 0)]
                  /\ UNCHANGED <<tripped, pc, probe>>
             ELSE /\ probe' = [probe EXCEPT !.at = "batch", !.i = i]
                  /\ UNCHANGED <<tripped, pc, futures, tally>>
    /\ UNCHANGED <<command, args, registry, env, files, checkpoint, writer, entry_ids,
                   total_previously_scraped, batch, completed, calls, ret, exit_code,
                   rate_limiter, threads, clock>>

\* Lines 239-242 (422-425): batch_lock is taken and the result appended; a
\* batch that reached batch_size is handed to writer.write_batch inside the
\* `with batch_lock` block, otherwise the block ends.
hr_append ==
    /\ probe.at = "batch"
    /\ ~probe.batch_lock
    /\ LET i == probe.i
           batch1 == Append(batch, ScrapeResult(entry_ids[i].v, registry[entry_ids[i].v]))
       IN /\ batch' = batch1
          /\ probe' = IF Len(batch1) >= args.batch_size
                      THEN [probe EXCEPT !.at = "write", !.batch_lock = TRUE,
                                         !.io = "write_batch"]
                      ELSE [probe EXCEPT !.at = "count"]
    /\ UNCHANGED <<command, args, registry, env, files, checkpoint, writer, pc, entry_ids,
                   total_previously_scraped, futures, completed, errors, tripped,
                   calls, ret, exit_code, tally, rate_limiter, threads, clock>>

\* An hr_write whose batch_lock stays locked when write_batch raises.
hr_write_keeps_lock(fail) ==
    /\ probe.at = "write"
    /\ ~probe.writer_lock
    /\ LET wb == write_batch(writer, files, batch, fail)
       IN /\ writer' = wb.w
          /\ files' = wb.fs
          /\ batch' = batch_after_flush(batch, TRUE, wb.raised)
          /\ tally' = [tally EXCEPT !.flattened = @ + RowCount(batch)]
          /\ probe' = [probe EXCEPT !.at = "count", !.batch_lock = wb.raised, !.io = "none"]
    /\ UNCHANGED <<command, args, registry, env, checkpoint, pc, entry_ids,
                   total_previously_scraped, futures, completed, errors, tripped,
                   calls, ret, exit_code, rate_limiter, threads, clock>>

\* Lines 242-246 (425-429): write_batch runs (it takes the writer's lock for
\* the batch number) and returns or raises; batch.clear() follows a return;
\* the `with batch_lock` block ends.
hr_write(fail) ==
    /\ probe.at = "write"
    /\ ~probe.writer_lock
    /\ LET wb == write_batch(writer, files, batch, fail)
       IN /\ writer' = wb.w
          /\ files' = wb.fs
          /\ batch' = batch_after_flush(batch, TRUE, wb.raised)
          /\ tally' = [tally EXCEPT !.flattened = @ + RowCount(batch)]
    /\ probe' = [probe EXCEPT !.at = "count", !.batch_lock = FALSE, !.io = "none"]
    /\ UNCHANGED <<command, args, registry, env, checkpoint, pc, entry_ids,
                   total_previously_scraped, futures, completed, errors, tripped,
                   calls, ret, exit_code, rate_limiter, threads, clock>>

\* Lines 248-252 (431-432): state_lock is taken and the count increased; in
\* run_load a count that is a multiple of checkpoint_every calls
\* writer.save_checkpoint, which takes the writer's lock, inside the
\* `with state_lock` block.  Otherwise the block and the call end.
hr_count ==
    /\ probe.at = "count"
    /\ ~probe.state_lock
    /\ completed' = completed + 1
    /\ IF command = "load" /\ (completed + 1) % args.checkpoint_every = 0
       THEN /\ ~probe.writer_lock
            /\ probe' = [probe EXCEPT !.at = "checkpoint", !.state_lock = TRUE,
                                      !.writer_lock = TRUE, !.io = "save_checkpoint"]
            /\ UNCHANGED futures
       ELSE /\ probe' = [probe EXCEPT !.at = "idle"]
            /\ futures' = [futures EXCEPT ![probe.i] = "handled"]
    /\ UNCHANGED <<command, args, registry, env, files, checkpoint, writer, pc, entry_ids,
                   total_previously_scraped, batch, errors, tripped,
                   calls, ret, exit_code, tally, rate_limiter, threads, clock>>

\* Lines 252-258: save_checkpoint writes the file or raises; the writer's
\* lock and state_lock are released and handle_result returns.
hr_checkpoint(cp_fails) ==
    /\ probe.at = "checkpoint"
    /\ checkpoint' = IF cp_fails THEN checkpoint
                     ELSE save_checkpoint(entry_ids[probe.i],
                                          completed + total_previously_scraped)
    /\ probe' = [probe EXCEPT !.at = "idle", !.state_lock = FALSE,
                              !.writer_lock = FALSE, !.io = "none"]
    /\ futures' = [futures EXCEPT ![probe.i] = "handled"]
    /\ UNCHANGED <<command, args, registry, env, files, writer, pc, entry_ids,
                   total_previously_scraped, batch, completed, errors, tripped,
                   calls, ret, exit_code, tally, rate_limiter, threads, clock>>

\* The arguments tried: one or two workers, with and without a rate.
PoolArgs ==
    [ids : {[i \in 1..MaxEntries |-> IntV(i)]},
     max_workers : {1, 2},
     requests_per_second : {0, 1},
     checkpoint_every : {2},
     batch_size : {2},
     max_consecutive_errors : {2},
     resume_from_checkpoint : {TRUE}]

\* Scrapes succeed or fail; a write of the properties file can fail.
PoolEnv == [outcomes |-> {"ok", "error"}, write_failures |-> {"properties", "none"},
            checkpoint_failures |-> BOOLEAN]

\* `scrape load` on an empty data directory or `scrape refresh` on a loaded
\* scope; the RateLimiter of the run and one pool thread per future.
PoolStart(a) ==
    /\ command \in {"load", "refresh"}
    /\ args = a
    /\ files = IF command = "load" THEN {} ELSE PriorFiles(Len(a.ids), TRUE)
    /\ checkpoint = NoCheckpoint
    /\ env = PoolEnv
    /\ registry = [pid \in 1..(MaxEntries + 1) |-> ChangedValue]
    /\ writer = NewWriter(1)
    /\ pc = "start"
    /\ entry_ids = <<>>
    /\ total_previously_scraped = 0
    /\ futures = <<>>
    /\ tally = NoTally
    /\ batch = <<>>
    /\ completed = 0
    /\ errors = [total |-> 0, consecutive |-> 0]
    /\ tripped = FALSE
    /\ calls = <<>>
    /\ ret = NotReturned
    /\ exit_code = NotReturned
    /\ rate_limiter = NewRateLimiter(args.max_workers, args.requests_per_second)
    /\ threads = [i \in 1..MaxEntries |-> NewThread]
    /\ clock = TicksPerSecond
    /\ probe = NoHandler

InitPool == \E a \in PoolArgs : PoolStart(a)

NextPool ==
    \/ run_load_start
    \/ run_refresh_start
    \/ \E i \in Positions : worker_start(i)
    \/ \E i \in Positions : pool_acquire(i)
    \/ \E i \in Positions : reserve(i)
    \/ \E i \in Positions : sleep(i)
    \/ \E i \in Positions : lease_begin(i)
    \/ \E i \in Positions, raised \in BOOLEAN : lease_end(i, raised)
    \/ \E i \in Positions, outcome \in env.outcomes : pool_worker_return(i, outcome)
    \/ \E i \in Positions : hr_errors(i)
    \/ hr_append
    \/ \E fail \in env.write_failures : hr_write(fail)
    \/ hr_count
    \/ \E cp_fails \in env.checkpoint_failures : hr_checkpoint(cp_fails)
    \/ cancel_futures
    \/ pool_exit
    \/ \E fail \in env.write_failures : flush_remaining(fail)
    \/ \E fail \in env.write_failures : refresh_flush(fail)
    \/ \E cp_fails \in env.checkpoint_failures : final_checkpoint(cp_fails)
    \/ compact_session
    \/ refresh_compact
    \/ close_and_return
    \/ refresh_close_and_return

SpecPool == InitPool /\ [][NextPool]_vars

\* The threads of the run keep running: no thread that can take its next
\* step is left waiting forever (the scrape callbacks return, the sleeps
\* end, the interpreter schedules every thread).
MaxFutures == 2

InitPoolFair ==
    \E a \in PoolArgs : PoolStart([a EXCEPT !.ids = SubSeq(a.ids, 1, MaxFutures)])

SpecPoolFair == InitPoolFair /\ [][NextPool]_vars /\ WF_vars(NextPool)

\* ================================================================== claims

\* The rows stored in table t of a scope directory: one (file, index) pair
\* per stored row.
RowsOf(fs, t) == UNION {{<<f, j>> : j \in 1..Len(f.rows)} : f \in {g \in fs : g.table = t}}

StoredRows(t) == RowsOf(files, t)

\* C1: after `load [1..M]` was killed mid-run and run again with
\* resume_from_checkpoint (every scrape succeeding), when the second run
\* returns every entry of [1..M] has its properties row stored, and no two
\* stored rows of a table differ only by scraped_at (carry the same row_hash).
C1_KillResume ==
    (pc = "done" /\ command = "load" /\ writer.session_ts = 2) =>
        /\ \A pid \in 1..MaxEntries :
              \E x \in StoredRows("properties") : x[1].rows[x[2]].pid = IntV(pid)
        /\ \A t \in TableSet : \A x, y \in StoredRows(t) :
              x[1].rows[x[2]].row_hash = y[1].rows[y[2]].row_hash => x = y

C4_FailureVisibleAsStated ==
    (pc = "done" /\ tripped) =>
        /\ ret = NotReturned
        /\ exit_code # 0
        /\ \E k \in 1..Len(calls) : calls[k].op = "save_checkpoint"

\* C4 amended: TooManyErrors is caught inside run_load; after the tail batch
\* was flushed and a final checkpoint saved, run_load returns completed.count
\* and the command exits 0.
C4_AbortReturns ==
    (pc = "done" /\ tripped) =>
        /\ ret = completed
        /\ exit_code = 0
        /\ \E k \in 1..Len(calls) : calls[k].op = "save_checkpoint"
        /\ batch # <<>> => calls[1].op = "write_batch"

C4_Witness ==
    /\ pc = "done" /\ tripped
    /\ batch # <<>>
    /\ errors.total = 2

\* C5: with resume_from_checkpoint and a checkpoint, run_load submits exactly
\* the IDs after the first ID whose str() equals last_entry_id and keeps the
\* checkpoint's total as the resumed count; when no ID matches it submits
\* every ID and the resumed count is 0.  Every submitted ID, and no other, is
\* scraped when the run ends without the breaker tripping.
C5_Resume ==
    /\ [][(pc = "start" /\ args.resume_from_checkpoint /\ checkpoint.present) =>
            LET ids == args.ids
                matches == {i \in 1..Len(ids) : Str(ids[i]) = checkpoint.last_entry_id}
            IN IF matches = {}
               THEN entry_ids' = ids /\ total_previously_scraped' = 0
               ELSE \E m \in matches :
                       /\ \A j \in matches : m <= j
                       /\ entry_ids' = [k \in 1..(Len(ids) - m) |-> ids[m + k]]
                       /\ total_previously_scraped' = checkpoint.total_scraped]_vars
    /\ [](/\ Positions = 1..Len(entry_ids)
          /\ (pc = "done" /\ ~tripped) => Scraped = Positions)

C5_Witness ==
    /\ pc = "done" /\ ~tripped
    /\ args.resume_from_checkpoint
    /\ args.ids[1] = args.ids[3]
    /\ entry_ids = <<IntV(1), IntV(2)>>
    /\ total_previously_scraped = 2
    /\ completed = 2

ChangedEntries == {pid \in 1..MaxEntries : registry[pid] # BaseValue}

\* The rows the writer's session appended to its files.
SessionRows ==
    UNION {{x \in StoredRows(t) : x[1].ts = writer.session_ts} : t \in TableSet}

C8_ChangeOnlyWrite ==
    (command = "refresh" /\ pc # "start") =>
        /\ \A t \in TableSet : \A x, y \in StoredRows(t) :
              (x[1].ts = writer.session_ts
               /\ x[1].rows[x[2]].row_hash = y[1].rows[y[2]].row_hash) => x = y
        /\ writer.rows_written = Cardinality(SessionRows)
        /\ writer.rows_skipped = tally.flattened - Cardinality(SessionRows)
        /\ (pc = "done" /\ completed = MaxEntries /\ Cardinality(ChangedEntries) = 1) =>
              /\ get_write_stats(writer).rows_written = 1
              /\ get_write_stats(writer).rows_skipped = tally.flattened - 1

\* C9: after compact() at the end of a run, each table directory holds at
\* most one file whose name carries the writer's session timestamp.
C9_OneFilePerTable ==
    pc \in {"close", "done"} =>
        \A t \in TableSet :
            Cardinality({f \in files : f.table = t /\ f.ts = writer.session_ts}) <= 1

C9_Witness ==
    /\ pc = "done"
    /\ \E f \in files : f.table = "properties" /\ f.part = Merged /\ Len(f.rows) = MaxEntries
    /\ \E f \in files : f.table = "buildings" /\ f.part # Merged

\* C10: compact() creates, replaces or deletes only files named with the
\* writer's session timestamp; every file of another session stays as it is.
C10_CompactFrame ==
    [][pc = "compact" =>
          /\ \A f \in files : f.ts # writer.session_ts => f \in files'
          /\ \A f \in files' \ files : f.ts = writer.session_ts
          /\ \A f \in files \ files' : f.ts = writer.session_ts]_vars

C10_Witness ==
    /\ pc = "close"
    /\ \E f \in files : f.ts = writer.session_ts /\ f.part = Merged
    /\ \E f, g \in files : f.ts = 0 /\ g.ts = 0 /\ f.table = g.table /\ f.part # g.part

\* The threads inside a lease: past the semaphore, not yet past the release.
InLease == {t \in Threads : threads[t].pc \in {"holding", "reserved", "body"}}

\* The threads that acquire() has granted a lease: they reserved their slot
\* (or skipped the reservation) and went on towards the yield.
Granted == {t \in Threads : threads[t].pc \in {"reserved", "body", "done", "failed"}}

\* The threads whose lease body has begun.
Begun == {t \in Threads : threads[t].pc \in {"body", "done", "failed"}}

\* C11: at every moment the number of threads inside an acquire() lease is at
\* most max_workers, and the semaphore's counter is max_workers minus that
\* number.
C11_LeasesBounded ==
    /\ Cardinality(InLease) <= rate_limiter.max_workers
    /\ rate_limiter.permits = rate_limiter.max_workers - Cardinality(InLease)

C11_Witness ==
    /\ Cardinality(InLease) = 2
    /\ rate_limiter.max_workers = 2
    /\ \E t \in Threads : threads[t].pc = "idle"

\* C12: with rps > 0, every acquirer's slot is last_request_time as it left
\* the locked block, the slots of successive acquirers are at least
\* min_interval apart, no lease body begins before its slot, and when K lease
\* bodies have begun at least (K - 1) * min_interval has passed since the
\* first slot (the instant the first lease was granted).
C12_SlotsSpaced ==
    rate_limiter.min_interval > 0 =>
        /\ \A a, b \in Granted :
              threads[b].turn = threads[a].turn + 1 =>
                  threads[b].slot >= threads[a].slot + rate_limiter.min_interval
        /\ \A a \in Granted :
              threads[a].turn = rate_limiter.total_requests =>
                  threads[a].slot = rate_limiter.last_request_time
        /\ \A a \in Begun : clock >= threads[a].slot
        /\ \A a \in Granted :
              threads[a].turn = 1 =>
                  (Begun # {} =>
                      clock >= threads[a].slot
                               + (Cardinality(Begun) - 1) * rate_limiter.min_interval)

C12_Witness ==
    /\ rate_limiter.min_interval = TicksPerSecond
    /\ Cardinality(Begun) = MaxThreads
    /\ rate_limiter.max_workers = 2
    /\ \E a, b \in Threads : threads[a].wait > 0 /\ threads[b].wait > threads[a].wait

\* C13: a permit taken by acquire() is given back whether the lease body
\* returned or raised: once every thread has finished, the semaphore's counter
\* is max_workers again.
C13_PermitsReturned ==
    (\A t \in Threads : threads[t].pc \in {"done", "failed", "timed_out"}) =>
        rate_limiter.permits = rate_limiter.max_workers

C13_Witness ==
    /\ \A t \in Threads : threads[t].pc \in {"done", "failed", "timed_out"}
    /\ \E t \in Threads : threads[t].pc = "failed"
    /\ \E t \in Threads : threads[t].pc = "done"
    /\ \E t \in Threads : threads[t].pc = "timed_out"

\* C20: for every configuration of the limiter, rps = 0 included,
\* get_stats().total_requests is the number of leases acquire() has granted.
C20_StatsCountLeases ==
    get_stats(rate_limiter).total_requests = Cardinality(Granted)

\* The position whose result the completion loop handles in this step.
Handles(i) == i \in Positions /\ futures[i] \in Finished /\ futures'[i] = "handled"

\* C14: in run_load and run_refresh, handling an entry whose scrape raised the
\* invalid-entry error changes neither errors.total nor completed.count nor
\* the batch nor the files and does not trip the breaker; the other entries
\* are still processed: a run that ends without a trip has handled every one.
C14_InvalidSkipped ==
    /\ [][\A i \in Positions :
            (Handles(i) /\ futures[i] = "invalid") =>
                /\ errors'.total = errors.total
                /\ errors'.consecutive = 0
                /\ completed' = completed
                /\ batch' = batch
                /\ files' = files
                /\ tripped' = tripped]_vars
    /\ []((pc = "done" /\ ~tripped) =>
            /\ \A i \in Positions : futures[i] = "handled"
            /\ completed + tally.invalid + errors.total = Len(entry_ids))

C14_Witness ==
    /\ pc = "done" /\ ~tripped /\ command = "refresh"
    /\ tally.invalid = 1
    /\ completed = MaxEntries - 1

\* What is left to do: the stage of the main thread, then the work left in
\* the futures (queued, running, finished and not yet handled).
StageRank ==
    CASE pc = "start" -> 6
      [] pc \in {"loop", "cancel", "join"} -> 5
      [] pc = "flush" -> 4
      [] pc = "checkpoint" -> 3
      [] pc = "compact" -> 2
      [] pc = "close" -> 1
      [] OTHER -> 0

FutureWork(i) ==
    CASE futures[i] = "pending" -> 3
      [] futures[i] = "running" -> 2
      [] futures[i] \in Finished -> 1
      [] OTHER -> 0

RECURSIVE WorkLeft(_)
WorkLeft(n) == IF n = 0 THEN 0 ELSE FutureWork(n) + WorkLeft(n - 1)

RunMeasure == StageRank * (3 * MaxEntries + 1) + WorkLeft(Len(futures))

\* Some step of the run can be taken: in the loop a worker can start or
\* return, a finished future waits to be handled, or the pool can be left;
\* the steps before and after the loop wait for nothing.
CanStep ==
    \/ pc \in {"start", "flush", "checkpoint", "compact", "close"}
    \/ /\ pc \in {"loop", "join"}
       /\ \/ \E i \in Positions : ENABLED worker_start(i)
          \/ \E i \in Positions : ENABLED worker_photos(i, "ok", FALSE)
          \/ pc = "loop" /\ \E i \in Positions : futures[i] \in Finished
          \/ ENABLED pool_exit

\* C15: with max_consecutive_errors = 0 the breaker never trips whatever the
\* scrapes do; no future is run twice; the run ends normally: before its end
\* some step can always be taken, every step brings the end nearer, and at
\* the end every entry has been scraped and handled and the count is returned.
C15_BreakerDisabled ==
    /\ [](args.max_consecutive_errors = 0 => ~tripped)
    /\ [][\A i \in Positions :
            futures'[i] = "running" => futures[i] \in {"pending", "running"}]_vars
    /\ []((args.max_consecutive_errors = 0 /\ pc = "done") =>
            /\ \A i \in Positions : futures[i] = "handled"
            /\ Len(entry_ids) = MaxEntries
            /\ ret = completed
            /\ exit_code = 0)
    /\ []((args.max_consecutive_errors = 0 /\ pc # "done") => CanStep)
    /\ [][args.max_consecutive_errors = 0 => RunMeasure' < RunMeasure]_vars

C15_Witness ==
    /\ args.max_consecutive_errors = 0 /\ pc = "done" /\ command = "load"
    /\ errors.total = MaxEntries
    /\ errors.consecutive = MaxEntries

\* C16: an entry whose scrape returned a result and whose photo download then
\* raised is never counted as an error and is counted in completed.count:
\* as long as the breaker has not tripped, completed.count is at least the
\* number of such entries handled, and errors.total at most the number of
\* other entries handled.
C16_PhotoFailureNotAnError ==
    ~tripped =>
        /\ completed >= Cardinality({i \in tally.photo_failed : futures[i] = "handled"})
        /\ errors.total <= Cardinality({i \in Positions \ tally.photo_failed :
                                           futures[i] = "handled"})

\* The result the worker returned for position i.
ResultOf(i) == ScrapeResult(entry_ids[i].v, registry[entry_ids[i].v])

\* This step handles the result of position i, the batch reaches batch_size,
\* and the write_batch of the threshold flush raises.
ThresholdFlushRaised(i) ==
    /\ Handles(i) /\ futures[i] = "ok"
    /\ Len(batch) + 1 >= args.batch_size
    /\ \E fail \in TableSet :
          LET wb == write_batch(writer, files, Append(batch, ResultOf(i)), fail)
          IN wb.raised /\ writer' = wb.w /\ files' = wb.fs

\* C17 as stated: when write_batch raises during a threshold flush, the
\* in-memory batch is cleared and processing continues with the next result.
C17_BatchClearedAsStated ==
    [][\A i \in Positions :
          ThresholdFlushRaised(i) =>
              /\ batch' = <<>>
              /\ pc' = "loop"]_vars

\* C17 amended: when write_batch raises during a threshold flush, the batch is
\* kept, the result is still counted, processing continues with the next
\* result, and every later result handled while the batch is at or over
\* batch_size calls write_batch again on the whole batch.
C17_BatchKept ==
    /\ [][\A i \in Positions :
            ThresholdFlushRaised(i) =>
                /\ batch' = Append(batch, ResultOf(i))
                /\ completed' = completed + 1
                /\ pc' = "loop"
                /\ tripped' = tripped]_vars
    /\ [][\A i \in Positions :
            (Handles(i) /\ futures[i] = "ok" /\ Len(batch) >= args.batch_size) =>
                writer'.batch_num = writer.batch_num + 1]_vars

C17_Witness ==
    /\ pc = "done" /\ command = "load"
    /\ Len(batch) > args.batch_size
    /\ completed = MaxEntries
    /\ files = {}


\* The two dicts hold the same non-null value under every non-excluded key.
SameContent ==
    \A k \in Range(Columns) \ DEFAULT_EXCLUDE :
        dict_get(probe.data[1], k) = dict_get(probe.data[2], k)

\* C19: two rows with the same non-null values under the non-excluded keys
\* have the same hash, whatever the insertion order of their keys, whatever
\* excluded keys (scraped_at) they carry and with what values, and whatever
\* keys they carry with a None value; the hash of a dict is the hash of the
\* row it stands for.
C19_HashOfContent ==
    probe.hashed =>
        /\ SameContent => probe.hash[1] = probe.hash[2]
        /\ \A side \in {1, 2} :
               Range(probe.hash[side]) = compute_row_hash(as_row(probe.data[side]))

\* Same content, the two content keys inserted in opposite orders, scraped_at
\* on one side only and a None-valued owner on the other.
C19_Witness ==
    /\ probe.hashed
    /\ probe.data[1] = << <<"status", IntV(1)>>, <<"name", IntV(1)>>,
                          <<"scraped_at", IntV(1)>> >>
    /\ probe.data[2] = << <<"name", IntV(1)>>, <<"owner", NoneV>>,
                          <<"status", IntV(1)>> >>
    /\ probe.hash[1] = probe.hash[2]
    /\ Len(probe.hash[1]) = 2

\* The file is as the most recent save_checkpoint left it.
Intact == probe.file.form = "object" /\ ~probe.file.cut
          /\ {"last_entry_id", "total_scraped"} \subseteq DOMAIN probe.file.members

\* C18: get_last_checkpoint returns (str(last_entry_id), total_scraped) of the
\* most recent save_checkpoint, and returns (None, 0) without raising when the
\* file is missing, truncated or otherwise malformed.
C18_CheckpointRead ==
    probe.read # NotRead =>
        /\ probe.read.raised = "none"
        /\ probe.read.cp = IF Intact THEN checkpoint ELSE NoCheckpoint

\* For a file that is intact, missing, truncated, or an object lacking a key,
\* the read returns without raising: the saved pair if intact, else (None, 0).
CheckpointReadOfObject ==
    (probe.read # NotRead /\ probe.file.form \in {"missing", "object"}) =>
        /\ probe.read.raised = "none"
        /\ probe.read.cp = IF Intact THEN checkpoint ELSE NoCheckpoint
        /\ probe.read.cp = IF Intact THEN get_last_checkpoint(checkpoint) ELSE NoCheckpoint

\* C21: when the scope holds no known entry ID, run_refresh returns 0 at once:
\* no future is submitted, so scrape is never invoked; the hash cache is not
\* preloaded; no file is written; only close() is called on the writer.
C21_EmptyRefresh ==
    /\ [][(pc = "start" /\ command = "refresh" /\ get_known_entry_ids(files) = <<>>) =>
            /\ pc' = "done"
            /\ ret' = 0
            /\ futures' = <<>>
            /\ writer' = writer
            /\ files' = files
            /\ calls' = <<Call("close")>>]_vars
    /\ []((command = "refresh" /\ pc # "start" /\ entry_ids = <<>>) =>
            /\ pc = "done" /\ ret = 0
            /\ Scraped = {}
            /\ ~writer.hashes_loaded
            /\ writer.batch_num = 0
            /\ files = {})

C21_Witness ==
    /\ command = "refresh" /\ pc = "done"
    /\ entry_ids = <<>>
    /\ ret = 0
    /\ calls = <<Call("close")>>

\* The largest entry ID among the positions in S.
MaxId(S) == CHOOSE m \in {entry_ids[j].v : j \in S} : \A j \in S : entry_ids[j].v <= m

\* C22: whenever run_load saves a periodic checkpoint, its last_entry_id is
\* the largest entry ID among the entries counted in completed.count so far,
\* whatever the order in which the workers completed.  (Stated for the steps
\* at which every entry handled so far was a success, so that the entries
\* counted are the entries handled.)
C22_CheckpointIsMax ==
    [][\A i \in Positions :
          (command = "load" /\ Handles(i) /\ checkpoint' # checkpoint) =>
              LET counted == {j \in Positions : futures'[j] = "handled"}
              IN completed' = Cardinality(counted) =>
                     checkpoint'.last_entry_id = Str(IntV(MaxId(counted)))]_vars

\* C23: after a run_load the breaker cut short, a following run_load over the
\* same iterator with resume_from_checkpoint scrapes every entry that the
\* aborted run never scraped.
C23_NoEntryAbandoned ==
    (command = "load" /\ pc = "done" /\ writer.session_ts = 2) =>
        \A id \in 1..MaxEntries :
            id \notin probe.scraped => \E i \in Scraped : entry_ids[i].v = id

\* C24: handling a non-invalid scrape error adds one to errors.consecutive,
\* handling a successful result resets it to 0, and handling an invalid-entry
\* completion leaves it as it was.
C24_ConsecutiveCounter ==
    [][\A i \in Positions :
          Handles(i) =>
              /\ futures[i] = "error" => errors'.consecutive = errors.consecutive + 1
              /\ futures[i] = "ok" => errors'.consecutive = 0
              /\ futures[i] = "invalid" => errors'.consecutive = errors.consecutive]_vars

\* C29: once TooManyErrors has fired, no entry whose scrape had not started
\* at that moment is scraped afterwards, while the workers that were running
\* are not cancelled and have run to completion when the pool is left.
C29_OutstandingCancelled ==
    /\ [][tripped =>
            \A i \in Positions :
                /\ futures[i] \in {"pending", "cancelled"} =>
                       futures'[i] \in {"pending", "cancelled"}
                /\ futures[i] = "running" => futures'[i] \in {"running"} \cup Finished]_vars
    /\ []((tripped /\ pc \notin {"cancel", "join"}) => Running = {} /\ Pending = {})

\* Once the cancel loop has run, no queued entry is scraped: every future
\* queued at that moment is cancelled and stays so, and the workers running
\* then finish before the pool is left.
CancelledAfterLoop ==
    /\ [][(tripped /\ pc # "cancel") =>
            \A i \in Positions :
                /\ futures[i] \in {"pending", "cancelled"} => futures'[i] = "cancelled"
                /\ futures[i] = "running" => futures'[i] \in {"running"} \cup Finished]_vars
    /\ [][pc = "cancel" =>
            \A i \in Positions : futures[i] = "pending" => futures'[i] \in {"running", "cancelled"}]_vars
    /\ []((tripped /\ pc \notin {"cancel", "join"}) => Running = {} /\ Pending = {})

\* C28: every result a worker returned is appended to a batch, counted in
\* completed.count and handed to a flush, also when the breaker tripped while
\* its worker was running or before its future was handled: when the run has
\* returned, no future holds a result that was not handled, and a batch that
\* was not empty at the end was passed to write_batch.
C28_EveryResultKept ==
    pc = "done" =>
        /\ \A i \in Positions : futures[i] # "ok"
        /\ batch # <<>> => calls[1].op = "write_batch"

\* The rows of table t in fs that belong to entry ID pid.
RowsOfEntry(fs, t, pid) == {x \in RowsOf(fs, t) : x[1].rows[x[2]].pid = IntV(pid)}

\* C27: when a threshold flush of run_load failed and a later threshold flush
\* succeeds, every successful result handled so far, those of the batch whose
\* write failed included, is in the written files, each row stored once.
\* (Stated for the steps at which every entry handled so far was a success.)
C27_ProgressNotLost ==
    [][\A i \in Positions :
          (/\ command = "load" /\ Handles(i) /\ futures[i] = "ok"
           /\ Len(batch) >= args.batch_size
           /\ batch' = <<>>
           /\ completed' = Cardinality({j \in Positions : futures'[j] = "handled"})) =>
              \A j \in {k \in Positions : futures'[k] = "handled"} :
                  /\ Cardinality(RowsOfEntry(files', "properties", entry_ids[j].v)) = 1
                  /\ Cardinality(RowsOfEntry(files', "buildings", entry_ids[j].v))
                         = Len(ResultOf(j).buildings)]_vars


\* The rows the writer's session appended to table t.
AppendedRows(t) == {x \in StoredRows(t) : x[1].ts = writer.session_ts}

\* C25: with the hash cache active, one writer never appends two rows with
\* the same row_hash to the same table, whether the two rows arrive in
\* different batches or in the same batch.
C25_NoDuplicateAppended ==
    writer.hashes_loaded =>
        \A t \in TableSet : \A x, y \in AppendedRows(t) :
            x[1].rows[x[2]].row_hash = y[1].rows[y[2]].row_hash => x = y

\* The part of C25 about rows that arrive in different batches.
NoDuplicateAcrossBatches ==
    writer.hashes_loaded =>
        \A t \in TableSet : \A x, y \in AppendedRows(t) :
            x[1].rows[x[2]].row_hash = y[1].rows[y[2]].row_hash => x[1] = y[1]


\* C26: with the hash cache active, a hash is in the cache of a table only if
\* a row with that hash is stored in a file of that table, and rows_written
\* counts the rows the session appended: a failed file write leaves neither
\* the hashes of its rows in the cache nor their number in rows_written.
C26_CacheOnlyStored ==
    writer.hashes_loaded =>
        /\ \A t \in DOMAIN writer.existing_hashes :
              writer.existing_hashes[t] \subseteq load_existing_hashes(files, t)
        /\ writer.rows_written = Cardinality(UNION {AppendedRows(t) : t \in TableSet})


\* The threads that hold a batch number and have not left write_batch.
InWriteBatch == {t \in WriterThreads : threads[t].pc \in {"filter", "add", "write"}}

\* C30: two concurrent write_batch calls are serialized (cache check, cache
\* insert and file write of one call are not interleaved with those of the
\* other), and with the hash cache active they never both append a row with
\* the same row_hash to a table.
C30_WriteBatchSerialized ==
    /\ Cardinality(InWriteBatch) <= 1
    /\ writer.hashes_loaded =>
          \A t \in TableSet : \A x, y \in AppendedRows(t) :
              (x[1] # y[1]) => x[1].rows[x[2]].row_hash # y[1].rows[y[2]].row_hash

\* The second part of C30 alone.
NotBothAppended ==
    \A t \in TableSet : \A x, y \in AppendedRows(t) :
        (x[1] # y[1]) => x[1].rows[x[2]].row_hash # y[1].rows[y[2]].row_hash

\* The batch numbers handed out under the lock are distinct.
DistinctBatchNumbers ==
    \A t, u \in WriterThreads :
        (t # u /\ threads[t].pc \notin {"idle", "lock"} /\ threads[u].pc \notin {"idle", "lock"}) =>
            threads[t].batch_num # threads[u].batch_num


\* The file a write_batch call of thread t is about to write.
FileOf(t) ==
    File(Tables[threads[t].i], writer.session_ts, threads[t].batch_num, threads[t].new_rows)

\* C31: every file write of a write_batch call creates exactly one new file,
\* in the directory of the call's table and named with the session timestamp
\* and the call's batch number; no file that exists is replaced, changed or
\* removed, no other step changes the files, and no two calls of the writer
\* hold the same batch number, also when the calls run concurrently.
C31_OneNewFilePerWrite ==
    /\ [][/\ files \subseteq files'
          /\ \A t \in WriterThreads :
                (threads[t].pc = "write" /\ threads'[t].pc = "filter") =>
                    /\ \A g \in files : ~SamePath(g, FileOf(t))
                    /\ files' = files \cup {FileOf(t)}
          /\ (files' # files) =>
                \E t \in WriterThreads : threads[t].pc = "write" /\ threads'[t].pc = "filter"]_vars
    /\ [](\A t, u \in WriterThreads :
            (t # u /\ threads[t].pc \notin {"idle", "lock"}
                   /\ threads[u].pc \notin {"idle", "lock"}) =>
                threads[t].batch_num # threads[u].batch_num)

\* Both calls have returned and each wrote a file of the same table.
C31_Witness ==
    /\ \A t \in WriterThreads : threads[t].pc = "returned"
    /\ \E f, g \in files :
          /\ f.table = g.table /\ f.ts = writer.session_ts /\ g.ts = writer.session_ts
          /\ f.part # g.part


\* The threads asleep in time.sleep(wait): their slot lies ahead.
Sleeping == {t \in Threads : threads[t].pc = "reserved" /\ clock < threads[t].slot}

\* C35: in RateLimiter.acquire the lock that guards last_request_time is not
\* held while an acquirer sleeps, so a thread that holds a permit can enter
\* the locked block and reserve the next slot while another thread sleeps.
C35_SleepOutsideLock ==
    Sleeping # {} => rate_limiter.lock = 0

\* Two threads sleep at once, the second for the slot after the first's: it
\* reserved while the first was asleep.
C35_Witness ==
    \E t, u \in Sleeping :
        /\ threads[t].turn < threads[u].turn
        /\ threads[t].slot < threads[u].slot


\* The rows of table t that the files of session ts hold, and how often the
\* files hold row r.
SessionRowsOf(fs, t, ts) == {x \in RowsOf(fs, t) : x[1].ts = ts}

RowCopies(fs, t, ts, r) ==
    Cardinality({x \in SessionRowsOf(fs, t, ts) : x[1].rows[x[2]] = r})

RowValues(fs, t, ts) == {x[1].rows[x[2]] : x \in SessionRowsOf(fs, t, ts)}

\* The session's files of table t hold the same multiset of rows in fs and gs.
SameRows(fs, gs, t, ts) ==
    \A r \in RowValues(fs, t, ts) \cup RowValues(gs, t, ts) :
        RowCopies(fs, t, ts, r) = RowCopies(gs, t, ts, r)

\* C36: the compaction of a session that has not compacted before (the one
\* compact() at the end of a run) preserves content: for each table the
\* session's files hold the same multiset of rows after it as the batch
\* files written by write_batch held before it, also when a COPY raises,
\* and batch files are gone only where the merged file exists.
C36_CompactPreservesRows ==
    [][(/\ probe'.op = "compact"
        /\ \A f \in files : f.ts = writer.session_ts => f.part # Merged) =>
           \A t \in TableSet :
               /\ SameRows(files, files', t, writer.session_ts)
               /\ (session_files(files, t, writer.session_ts)
                      # session_files(files', t, writer.session_ts)) =>
                     \E f \in files' :
                        f.table = t /\ f.ts = writer.session_ts /\ f.part = Merged]_vars

\* A compaction has merged two batch files of one table into one file.
C36_Witness ==
    /\ probe.op = "compact" /\ ~probe.raised
    /\ writer.batch_num >= 2
    /\ \E f \in files :
          /\ f.ts = writer.session_ts /\ f.part = Merged /\ Len(f.rows) >= 2
          /\ session_files(files, f.table, writer.session_ts) = {}


\* C37: over any sequence of write_batch and compact calls on one writer no
\* stored row is lost (no call lowers the number of copies of a row in the
\* session's files), and after a compact() that returned the session has at
\* most one file per table.
C37_NoRowLost ==
    [][/\ \A t \in TableSet : \A r \in RowValues(files, t, writer.session_ts) :
             RowCopies(files', t, writer.session_ts, r)
                 >= RowCopies(files, t, writer.session_ts, r)
       /\ (probe'.op = "compact" /\ ~probe'.raised) =>
             \A t \in TableSet :
                 Cardinality({f \in files' : f.table = t /\ f.ts = writer.session_ts}) <= 1]_vars

\* The first part of C37 alone, and the second alone.
RowsKept ==
    [][\A t \in TableSet : \A r \in RowValues(files, t, writer.session_ts) :
          RowCopies(files', t, writer.session_ts, r)
              >= RowCopies(files, t, writer.session_ts, r)]_vars

OneFileAfterCompact ==
    (probe.op = "compact" /\ ~probe.raised) =>
        \A t \in TableSet :
            Cardinality({f \in files : f.table = t /\ f.ts = writer.session_ts}) <= 1


\* The columns under which the two rows hold different values, not both None.
ChangedColumns ==
    {k \in Range(Columns) \ DEFAULT_EXCLUDE :
        dict_get(probe.data[1], k) # dict_get(probe.data[2], k)}

\* C38: two rows that differ in the value of some non-excluded, non-null
\* column get different row hashes.
C38_ChangeDetected ==
    (probe.hashed /\ ChangedColumns # {}) => probe.hash[1] # probe.hash[2]

\* C38 for values whose text differs.
ChangedTextDetected ==
    (probe.hashed /\ \E k \in ChangedColumns :
                        \/ NoneV \in {dict_get(probe.data[1], k), dict_get(probe.data[2], k)}
                        \/ Str(dict_get(probe.data[1], k)) # Str(dict_get(probe.data[2], k)))
        => probe.hash[1] # probe.hash[2]


\* What run_load's handle_result (lines 218-246) does to the state the two
\* orchestrators share when it is given the completion of position i: the
\* error counters, the breaker, the batch with its threshold flush, the count.
HandledAsLoad(i) ==
    LET is_error == futures[i] = "error"
        errs == count_error(errors, is_error)
        trip == too_many_errors(errs, is_error, args.max_consecutive_errors)
        batch1 == Append(batch, ResultOf(i))
        full == Len(batch1) >= args.batch_size
    IN /\ errors' = errs
       /\ tripped' = (tripped \/ trip)
       /\ pc' = IF trip THEN "cancel" ELSE "loop"
       /\ IF trip \/ futures[i] # "ok"
          THEN /\ batch' = batch /\ completed' = completed
               /\ writer' = writer /\ files' = files
          ELSE /\ completed' = completed + 1
               /\ IF full
                  THEN \E fail \in TableSet \cup {"none"} :
                          LET wb == write_batch(writer, files, batch1, fail)
                          IN /\ writer' = wb.w /\ files' = wb.fs
                             /\ batch' = batch_after_flush(batch1, full, wb.raised)
                  ELSE batch' = batch1 /\ writer' = writer /\ files' = files

\* What run_load's tail (lines 297-302) does with the remaining batch.
FlushedAsLoad ==
    IF batch = <<>> THEN writer' = writer /\ files' = files
    ELSE \E fail \in TableSet \cup {"none"} :
            LET wb == write_batch(writer, files, batch, fail)
            IN writer' = wb.w /\ files' = wb.fs

\* C34: run_refresh handles each completion as run_load does (classification
\* of invalid entries and errors, breaker, batching), flushes the tail as
\* run_load does and returns completed.count as run_load does; it never
\* changes the checkpoint file.
C34_RefreshAsLoad ==
    /\ [][\A i \in Positions : Handles(i) => HandledAsLoad(i)]_vars
    /\ [][(pc = "flush" /\ pc' # "flush") => FlushedAsLoad]_vars
    /\ [](pc = "done" => ret = completed)
    /\ [][command = "refresh" => checkpoint' = checkpoint]_vars

\* A refresh has returned after counting enough results for a load to have
\* checkpointed, flushed a tail batch, and left no checkpoint.
C34_Witness ==
    /\ command = "refresh" /\ pc = "done"
    /\ completed = MaxEntries /\ completed >= args.checkpoint_every
    /\ ret = completed
    /\ \E j \in 1..Len(calls) : calls[j].op = "write_batch"
    /\ ~checkpoint.present


\* C32: the orchestrator's batch_lock and state_lock are never held across
\* file I/O: while the completion loop's thread is inside writer.write_batch
\* or writer.save_checkpoint it holds neither of them.
C32_NoLockAcrossIO ==
    probe.io # "none" => ~probe.batch_lock /\ ~probe.state_lock

\* A step of a pool worker: a future starts or ends running, or a pool
\* thread moves inside rate_limiter.acquire().
WorkerStep ==
    \/ threads' # threads
    \/ \E i \in Positions : futures[i] = "running" /\ futures'[i] # "running"
    \/ \E i \in Positions : futures[i] = "pending" /\ futures'[i] = "running"

\* C33: no pool worker calls a writer method (no step of a worker changes
\* the writer, the files or the checkpoint), and the writer calls of the
\* completion loop's thread are the only ones in progress: one made inside
\* handle_result is over before the calls after the loop are made.
C33_WriterCallsOnMainThread ==
    /\ [][(writer' # writer \/ files' # files \/ checkpoint' # checkpoint) => ~WorkerStep]_vars
    /\ [](probe.io # "none" => pc = "loop" /\ probe.at \in {"write", "checkpoint"})

\* A write_batch is in progress on the completion loop's thread while a pool
\* worker is inside its lease.
C33_Witness ==
    /\ probe.io = "write_batch"
    /\ \E i \in Positions : futures[i] = "running" /\ threads[i].pc = "body"

\* Where the run stands, and what is left to do for position i.
PoolStage ==
    CASE pc = "start" -> 8
      [] pc = "loop" -> 7
      [] pc = "cancel" -> 6
      [] pc = "join" -> 5
      [] pc = "flush" -> 4
      [] pc = "checkpoint" -> 3
      [] pc = "compact" -> 2
      [] pc = "close" -> 1
      [] OTHER -> 0

PoolWork(i) ==
    CASE futures[i] = "pending" -> 12
      [] futures[i] = "running" ->
            (CASE threads[i].pc = "idle" -> 11
               [] threads[i].pc = "holding" -> 10
               [] threads[i].pc = "reserved" -> IF clock < threads[i].slot THEN 9 ELSE 8
               [] threads[i].pc = "body" -> 7
               [] OTHER -> 6)
      [] futures[i] \in Finished ->
            IF probe.i = i /\ probe.at # "idle"
            THEN (CASE probe.at = "batch" -> 4
                    [] probe.at = "write" -> 3
                    [] probe.at = "count" -> 2
                    [] OTHER -> 1)
            ELSE 5
      [] OTHER -> 0

RECURSIVE PoolWorkLeft(_)
PoolWorkLeft(n) == IF n = 0 THEN 0 ELSE PoolWork(n) + PoolWorkLeft(n - 1)

PoolMeasure == PoolStage * (12 * Len(args.ids) + 1) + PoolWorkLeft(Len(futures))

\* Some thread of the run can take its next step.
PoolCanStep ==
    \/ pc \in {"start", "cancel", "flush", "checkpoint", "compact", "close"}
    \/ /\ pc = "loop"
       /\ \/ probe.at = "idle" /\ ~probe.state_lock
             /\ \E i \in Positions : futures[i] \in Finished
          \/ probe.at = "batch" /\ ~probe.batch_lock
          \/ probe.at = "write" /\ ~probe.writer_lock
          \/ probe.at = "count" /\ ~probe.state_lock /\ ~probe.writer_lock
          \/ probe.at = "checkpoint"
    \/ /\ pc \in {"loop", "join"}
       /\ \/ Running = {} /\ probe.at = "idle" /\ (pc = "loop" => Pending = {})
          \/ \E i \in Positions : ENABLED worker_start(i)
          \/ \E i \in Running :
                \/ ENABLED pool_acquire(i)
                \/ ENABLED reserve(i)
                \/ ENABLED sleep(i)
                \/ ENABLED lease_begin(i)
                \/ threads[i].pc \in {"body", "done", "failed"}

\* C39: run_load and run_refresh terminate in every interleaving, tripped or
\* not: until the run has returned some thread can take a step (no thread
\* waits for a lock or a permit that is never released), every step brings
\* the end nearer, and at the end no lock is held, every permit is back in
\* the semaphore and no worker is running.
C39_TerminatesLocksFree ==
    /\ <>(pc = "done")
    /\ [](pc # "done" => PoolCanStep)
    /\ [][PoolMeasure' < PoolMeasure]_vars
    /\ [](pc = "done" =>
            /\ ~probe.batch_lock /\ ~probe.state_lock /\ ~probe.writer_lock
            /\ probe.io = "none"
            /\ rate_limiter.lock = 0
            /\ rate_limiter.permits = rate_limiter.max_workers
            /\ Running = {})

\* A run with two workers that tripped has returned, after a worker had
\* slept for its slot.
C39_Witness ==
    /\ pc = "done" /\ tripped
    /\ rate_limiter.max_workers = 2
    /\ rate_limiter.total_wait_time > 0
    /\ rate_limiter.permits = rate_limiter.max_workers

\* C40: when a pool worker calls acquire() the semaphore has a permit for it,
\* so no worker waits on the semaphore and none times out.
C40_PermitAvailable ==
    \A i \in Positions :
        /\ (futures[i] = "running" /\ threads[i].pc = "idle") => semaphore_free(rate_limiter)
        /\ threads[i].pc # "timed_out"

\* max_workers leases are held at once while a future is still queued.
C40_Witness ==
    /\ rate_limiter.permits = 0
    /\ rate_limiter.max_workers = 2
    /\ Pending # {}
    /\ Cardinality({i \in Positions : threads[i].pc = "body" /\ futures[i] = "running"}) = 2

=============================================================================
